---- MODULE Spec2Model ----
(***************************************************************************)
(* Joyce memory core: the relational entity store (services/user/         *)
(* user_entities.py) and the dual-write coordinator (vs/insert.py).        *)
(*                                                                         *)
(* Conventions                                                             *)
(*   - a Python dict is a function from key strings to values;             *)
(*   - SQL NULL / Python None in a timestamp or id column is 0, real       *)
(*     timestamps and ids start at 1;                                      *)
(*   - a string that the code assembles from parts (a slug, a joined tag   *)
(*     list) is the sequence of its parts;                                 *)
(*   - uuid4() hands out the next id that was never used.                  *)
(***************************************************************************)
EXTENDS Integers, Sequences, FiniteSets, TLC

\* ------------------------------------------------------------------ bounds
\* readings of the database clock (func.now()); every commit that writes takes one,
\* so it also bounds the rows and the uuid4() values in use
MaxClock == 4
MaxId == MaxClock

\* callers
Users == {"u1", "u2"}
\* concurrent tasks of the single async process
Procs == {"p1", "p2"}
\* slugs callers pass explicitly
ExplicitSlugs == {<<"user", "/", "father">>}
\* the entities callers describe: (entity_type, collection, data)
CallerEntities ==
    { [type |-> "father", collection |-> "social", data |-> [name |-> "john"]],
      [type |-> "goal", collection |-> "pursuits",
       data |-> [title |-> "run", meta |-> [source |-> "user"]]] }
Types == {e.type : e \in CallerEntities}
Collections == {e.collection : e \in CallerEntities}
\* data objects callers pass to the updates
CallerData == {e.data : e \in CallerEntities}
\* archive reasons callers pass ("" is no reason)
Reasons == {"", "stale"}

NullTs == 0
NoId == 0
NoSlug == <<>>

\* ------------------------------------------------------------ Python dicts
EmptyDict == [k \in {} |-> ""]

SetKey(d, k, v) == [j \in DOMAIN d \cup {k} |-> IF j = k THEN v ELSE d[j]]

\* d.setdefault(k, v): d afterwards
SetDefault(d, k, v) == IF k \in DOMAIN d THEN d ELSE SetKey(d, k, v)

\* m.update(other): m afterwards
DictUpdate(m, other) ==
    [j \in DOMAIN m \cup DOMAIN other |-> IF j \in DOMAIN other THEN other[j] ELSE m[j]]

\* str(uuid) and datetime.isoformat(): injective renderings
StrUuid(id) == <<"uuid", id>>
Isoformat(t) == <<"iso8601", t>>

\* --------------------------------------------------------------- profiles
DisplayName == [u \in Users |-> IF u = "u1" THEN <<"Dave", "Lee">> ELSE <<"Ann">>]

Lower(tok) ==
    CASE tok = "Dave" -> "dave"
      [] tok = "Ann" -> "ann"
      [] OTHER -> tok

\* safify keeps [a-z0-9-_./] of the lower-cased string
safify(slug) == [i \in DOMAIN slug |-> Lower(slug[i])]

\* make_entity_slug(user_handle, entity_type, identifier) with short_id=None
make_entity_slug(user_handle, entity_type, identifier) ==
    safify(<<user_handle, "/", entity_type, ".", identifier>>)

\* str(entity_id).split("-")[0]
ShortId(id) == ToString(id)

VARIABLES
    entities,   \* table user_entities: a set of rows
    txns,       \* the open transactions that hold a row under SELECT ... FOR UPDATE,
                \* one per task that is inside update_entity_by_* or archive_entity
    nextId,     \* the next value uuid4() returns
    clock,      \* the last reading of the database clock
    last,       \* the call that finished last, with its result (serial runs)
    mode,       \* "serial": one task calls the store and its results are recorded;
                \* "concurrent": every task of Procs calls it, results are not kept
    memories,   \* table memories: the set of committed rows
    index,      \* the Chroma collection: a set of entries
    ins,        \* the insert_memories call in progress and where it stands
    memNextId,  \* the next value the id default (uuid.uuid4) of memories returns
    memClock,   \* the last reading of the wall clock by insert_memories
    srch,       \* the search that ran last: its arguments, its index query, its result
    rag,        \* the to_rag_context call that ran last, with what it returned
    tool,       \* the tool handler that ran last, with how it ended
    agent,      \* a voice agent: its background tasks and its _background_tasks set
    extract,    \* a background extraction: the tool calls it applies, stored_entities
    onboard,    \* the onboarding review that ran last, with what it decided
    rst         \* the reset_user script in progress and where it stands

entityVars == <<entities, txns, nextId, clock, last, mode>>
memVars == <<memories, index, ins, memNextId, memClock>>
readVars == <<srch, rag, tool>>
agentVars == <<agent, extract, onboard, rst>>
vars == <<entities, txns, nextId, clock, last, mode,
          memories, index, ins, memNextId, memClock, srch, rag, tool,
          agent, extract, onboard, rst>>

NoRow == [id |-> NoId]

\* op: the operation; call: its arguments; exc: what it raised ("none": it
\* returned); row: the entity it returned, for archive_entity the entity it
\* archived (NoRow: it returned None / False, or raised); attempts: how many times
\* tenacity ran the function; dropped: how many of them died of a dropped connection
NoCall ==
    [op |-> "none", call |-> EmptyDict, exc |-> "none", row |-> NoRow, attempts |-> 0,
     dropped |-> 0]

Finished(op, call, exc, row, attempts, dropped) ==
    IF mode = "serial"
    THEN [op |-> op, call |-> call, exc |-> exc, row |-> row, attempts |-> attempts,
          dropped |-> dropped]
    ELSE NoCall

Min(a, b) == IF a < b THEN a ELSE b

\* no insert_memories call is in progress
InsIdle ==
    [pc |-> "idle", batch |-> <<>>, attempt |-> 0, rows |-> <<>>, exc |-> "none",
     first_id |-> 0]

\* nothing has been searched, rendered or handled yet
NoSearch == [op |-> "none"]
NoRender == [op |-> "none"]
NoTool == [op |-> "none"]
\* no agent is running, nothing is being extracted or reviewed
NoAgent == [class |-> "none"]
NoExtract == [op |-> "none"]
NoOnboard == [op |-> "none"]
\* the reset_user script is not running
NoReset == [pc |-> "idle", user |-> "", chunk_ids |-> {}, exc |-> "none"]
InitRead ==
    /\ srch = NoSearch
    /\ rag = NoRender
    /\ tool = NoTool
    /\ agent = NoAgent
    /\ extract = NoExtract
    /\ onboard = NoOnboard
    /\ rst = NoReset

\* both stores of the memories are empty when the tasks start
InitMemories ==
    /\ memories = {}
    /\ index = {}
    /\ ins = InsIdle
    /\ memNextId = 1
    /\ memClock = 0

\* ------------------------------------------------------------ retry policy
\* retry=retry_if_exception_type(OperationalError)
RetryIfAny(exc) == exc # "none"
retry_if_exception_type(exc) == exc = "OperationalError"

\* stop=stop_after_attempt(3)
StopAfterAttempt == 3

\* The tenacity loop from attempt n on: the first `faults` attempts of the call die
\* of a dropped connection (OperationalError, nothing is written), every later
\* attempt ends as the statement does (`exc`, "none" when it does not raise).
RECURSIVE Tenacity(_, _, _)
Tenacity(n, faults, exc) ==
    LET raised == IF n <= faults THEN "OperationalError" ELSE exc
    IN  IF raised = "none" THEN [attempts |-> n, exc |-> "none"]
        ELSE IF ~retry_if_exception_type(raised) THEN [attempts |-> n, exc |-> raised]
        ELSE IF n >= StopAfterAttempt THEN [attempts |-> n, exc |-> "RetryError"]
        ELSE Tenacity(n + 1, faults, exc)

\* ------------------------------------------------------------------ table
AllRows(table) == table
LiveRows(table) == {r \in table : r.archived_at = NullTs}

\* UniqueConstraint("user_id", "slug", name="uq_user_entities_user_slug")
NoConflict(table, row) == {}
uq_user_entities_user_slug(table, row) ==
    {r \in table : r.user_id = row.user_id /\ r.slug = row.slug}

\* A task is free to start a call. The one task of a serial run has taken the
\* result of its previous call first.
FreeTask ==
    /\ Cardinality(txns) < (IF mode = "serial" THEN 1 ELSE Cardinality(Procs))
    /\ last = NoCall

\* A statement that needs the lock of row `id` waits while an open transaction of
\* another task holds it: with_for_update() on a query that selects that one row.
NeverBlocked(id) == FALSE
Blocked(id) == \E t \in txns : t.row = id

TypeOK ==
    /\ nextId \in 1..(MaxId + 1)
    /\ clock \in 0..MaxClock
    /\ \A r \in entities :
        /\ r.id \in 1..MaxId
        /\ r.user_id \in Users
        /\ r.type \in Types
        /\ r.collection \in Collections
        /\ r.created_at \in 1..MaxClock
        /\ r.updated_at \in 1..MaxClock
        /\ r.archived_at \in 0..MaxClock
    /\ Cardinality(txns) <= Cardinality(Procs)

\* --------------------------------------------------------- create_entity
\* data = data.copy() if data else {}; data["id"] = str(entity_id);
\* data.setdefault("meta", {}).update({created_source, last_updated})
PrepareData(data, entity_id, now) ==
    LET withId == SetKey(data, "id", StrUuid(entity_id))
        withMeta == SetDefault(withId, "meta", EmptyDict)
    IN  SetKey(withMeta, "meta",
               DictUpdate(withMeta.meta,
                          [created_source |-> "llm_tool", last_updated |-> Isoformat(now)]))

\* The dict of the caller after those statements. dict.copy() is shallow: a "meta"
\* object in the caller's dict is shared with the copy, and .update() writes the two
\* stamps into it; "id" and a "meta" made by setdefault go into the copy only.
CallerDictAfter(data, now) ==
    IF "meta" \in DOMAIN data
    THEN SetKey(data, "meta",
                DictUpdate(data.meta,
                           [created_source |-> "llm_tool", last_updated |-> Isoformat(now)]))
    ELSE data

\* insert(UserEntity).values(...): created_at and updated_at are server defaults
InsertValues(entity_id, user_id, slug, entity_type, collection, data, now) ==
    [id |-> entity_id, user_id |-> user_id, slug |-> slug, type |-> entity_type,
     collection |-> collection, data |-> data,
     created_at |-> now, updated_at |-> now, archived_at |-> NullTs]

\* on_conflict_do_update(set_={type, collection, data, updated_at, archived_at})
KeepOldOnConflict(old, excluded, now) == old
on_conflict_do_update(old, excluded, now) ==
    [old EXCEPT !.type = excluded.type,
                !.collection = excluded.collection,
                !.data = excluded.data,
                !.updated_at = now,
                !.archived_at = NullTs]

\* session.execute(stmt) of create_entity against `table`
InsertEntity(table, row, allow_upsert, now) ==
    LET hit == uq_user_entities_user_slug(table, row)
    IN  IF hit = {}
        THEN [exc |-> "none", table |-> table \cup {row}, row |-> row]
        ELSE IF allow_upsert
        THEN LET old == CHOOSE r \in hit : TRUE
                 new == on_conflict_do_update(old, row, now)
             IN  [exc |-> "none", table |-> (table \ {old}) \cup {new}, row |-> new]
        ELSE [exc |-> "IntegrityError", table |-> table, row |-> NoRow]

\* The whole call. Attempts that die of a dropped connection write nothing, so the
\* call takes effect at its last attempt; `faults` is how many attempts die first.
\* ON CONFLICT DO UPDATE takes the lock of the row it updates.
create_entity(user_id, entity_type, data, slugArg, collection, allow_upsert, faults) ==
    /\ FreeTask
    /\ LET entity_id == nextId
           now == clock + 1
           slug == IF slugArg # NoSlug THEN slugArg
                   ELSE make_entity_slug(DisplayName[user_id][1], entity_type,
                                         ShortId(entity_id))
           row == InsertValues(entity_id, user_id, slug, entity_type, collection,
                               PrepareData(data, entity_id, now), now)
           hit == uq_user_entities_user_slug(entities, row)
           stmt == InsertEntity(entities, row, allow_upsert, now)
           out == Tenacity(1, faults, stmt.exc)
       IN  /\ \A r \in hit : allow_upsert => ~Blocked(r.id)
           /\ IF out.exc = "none"
              THEN /\ nextId <= MaxId
                   /\ clock < MaxClock
                   /\ entities' = stmt.table
                   /\ nextId' = nextId + 1
                   /\ clock' = now
              ELSE UNCHANGED <<entities, nextId, clock>>
           /\ last' = Finished("create_entity",
                                [user |-> user_id, type |-> entity_type, data |-> data,
                                 slug |-> slugArg, collection |-> collection,
                                 allow_upsert |-> allow_upsert,
                                 data_after |-> IF faults < StopAfterAttempt
                                                THEN CallerDictAfter(data, now)
                                                ELSE data],
                                out.exc,
                                IF out.exc = "none" THEN stmt.row ELSE NoRow,
                                out.attempts, Min(faults, out.attempts))
    /\ UNCHANGED <<txns, mode>>
    /\ UNCHANGED <<memVars, readVars, agentVars>>

\* ------------------------------------------------------------------- Init
\* The store when the tasks start: empty, or holding the entity that an earlier
\* create_entity("u1", "father", {name: john}, slug="user/father", "social") made at
\* time 1, live or archived at time 2 by archive_entity.
FirstRow ==
    InsertValues(1, "u1", <<"user", "/", "father">>, "father", "social",
                 PrepareData([name |-> "john"], 1, 1), 1)
InitTables ==
    { {}, {FirstRow}, {[FirstRow EXCEPT !.archived_at = 2, !.updated_at = 2]} }

InitStore ==
    /\ entities \in InitTables
    /\ txns = {}
    /\ nextId = 2
    /\ clock = 2
    /\ last = NoCall

Init == InitStore /\ mode = "serial" /\ InitMemories /\ InitRead

\* the concurrent runs start one clock reading later
InitConcurrent ==
    /\ entities \in InitTables
    /\ txns = {}
    /\ nextId = 2
    /\ clock = 3
    /\ last = NoCall
    /\ mode = "concurrent"
    /\ InitMemories
    /\ InitRead

\* ------------------------------------- update_entity_by_*, archive_entity
\* select(UserEntity).filter(and_(user_id ==, id == | slug ==, archived_at.is_(None)))
SelectAnyRow(table, call) ==
    {r \in table :
        /\ r.user_id = call.user
        /\ IF call.op = "update_entity_by_slug" THEN r.slug = call.slug ELSE r.id = call.id}
SelectLive(table, call) ==
    {r \in LiveRows(table) :
        /\ r.user_id = call.user
        /\ IF call.op = "update_entity_by_slug" THEN r.slug = call.slug ELSE r.id = call.id}

\* meta = data.setdefault("meta", {}); meta["last_updated"] = now.isoformat()
StampData(data, now) ==
    LET withMeta == SetDefault(data, "meta", EmptyDict)
    IN  SetKey(withMeta, "meta", SetKey(withMeta.meta, "last_updated", Isoformat(now)))

\* What archive_entity assigns to entity.data in memory when a reason is given.
ArchiveInMemoryData(data, reason) ==
    IF reason = "" THEN data
    ELSE IF data = EmptyDict THEN EmptyDict
    ELSE LET withMeta == SetDefault(data, "meta", EmptyDict)
         IN  SetKey(withMeta, "meta",
                    DictUpdate(withMeta.meta,
                               [archive_reason |-> reason, archived_by |-> "llm_tool"]))

\* What the flush of archive_entity writes to the data column. The JSONB column is
\* a plain dict (no mutation tracking); the dict is changed in place and the same
\* object is assigned back, so the unit of work sees no change of `data` and the
\* UPDATE sets archived_at (and updated_at, by onupdate) only.
ArchiveFlushedData(data, reason) == data

\* (a deep-merging update would keep the keys of the previous data)
MergeFlushRow(row, call, now) ==
    IF call.op = "archive_entity"
    THEN [row EXCEPT !.archived_at = now, !.updated_at = now]
    ELSE [row EXCEPT !.data = DictUpdate(row.data, StampData(call.data, now)),
                     !.updated_at = now]
\* the UPDATE each commit flushes, applied to the row as it is in the table
FlushRow(row, call, now) ==
    IF call.op = "archive_entity"
    THEN [row EXCEPT !.archived_at = now,
                     !.updated_at = now,
                     !.data = ArchiveFlushedData(row.data, call.reason)]
    ELSE [row EXCEPT !.data = StampData(call.data, now),
                     !.updated_at = now]

\* First half of an attempt: the SELECT ... FOR UPDATE. Attempts that die of a
\* dropped connection hold no lock afterwards and write nothing; `faults` is how
\* many of them come before this one.
SelectForUpdate(call, faults) ==
    /\ FreeTask
    /\ LET out == Tenacity(1, faults, "none")
           hit == SelectLive(entities, call)
       IN  IF out.exc # "none"
           THEN /\ txns' = txns
                /\ last' = Finished(call.op, call, out.exc, NoRow, out.attempts,
                                    Min(faults, out.attempts))
           ELSE IF hit = {}
           THEN \* `if not entity: return None` / `return False`
                /\ txns' = txns
                /\ last' = Finished(call.op, call, "none", NoRow, out.attempts,
                                    out.attempts - 1)
           ELSE LET entity == CHOOSE r \in hit : TRUE
                IN  /\ ~Blocked(entity.id)
                    /\ txns' = txns \cup {[call |-> call, row |-> entity.id]}
                    /\ last' = last
    /\ UNCHANGED <<entities, nextId, clock, mode>>
    /\ UNCHANGED <<memVars, readVars, agentVars>>

update_entity_by_id(user_id, entity_id, data, faults) ==
    SelectForUpdate([op |-> "update_entity_by_id", user |-> user_id, slug |-> NoSlug,
                     id |-> entity_id, data |-> data, reason |-> ""], faults)

update_entity_by_slug(user_id, slug, data, faults) ==
    SelectForUpdate([op |-> "update_entity_by_slug", user |-> user_id, slug |-> slug,
                     id |-> NoId, data |-> data, reason |-> ""], faults)

archive_entity(user_id, entity_id, reason, faults) ==
    SelectForUpdate([op |-> "archive_entity", user |-> user_id, slug |-> NoSlug,
                     id |-> entity_id, data |-> EmptyDict, reason |-> reason], faults)

\* Second half: the assignments and session.commit(), which releases the lock.
\* update_* returns the refreshed entity, archive_entity returns True. `faults` is
\* how many attempts of the call died before the one that commits.
Commit(t, faults) ==
    /\ t \in txns
    /\ clock < MaxClock
    /\ faults < StopAfterAttempt
    /\ LET now == clock + 1
           old == CHOOSE r \in entities : r.id = t.row
           new == FlushRow(old, t.call, now)
       IN  /\ entities' = (entities \ {old}) \cup {new}
           /\ clock' = now
           /\ last' = Finished(t.call.op, t.call, "none", new, faults + 1, faults)
    /\ txns' = txns \ {t}
    /\ UNCHANGED <<nextId, mode>>
    /\ UNCHANGED <<memVars, readVars, agentVars>>

\* session.commit() raises OperationalError: the transaction is rolled back and the
\* lock released. Tenacity then either re-enters the function (a later
\* SelectForUpdate step with the same arguments) or, on the last attempt, gives up.
CommitFails(t, giveUp) ==
    /\ t \in txns
    /\ txns' = txns \ {t}
    /\ last' = IF giveUp
               THEN Finished(t.call.op, t.call, "RetryError", NoRow, StopAfterAttempt,
                             StopAfterAttempt)
               ELSE last
    /\ UNCHANGED <<entities, nextId, clock, mode>>
    /\ UNCHANGED <<memVars, readVars, agentVars>>

\* ------------------------------------------------------------ call inputs
Faults == 0..StopAfterAttempt
SlugArgs == ExplicitSlugs \cup {NoSlug}
KnownSlugs == ExplicitSlugs \cup {r.slug : r \in entities}
\* entity ids callers pass: those of the rows, and one that no row has
EntityIds == {r.id : r \in entities} \cup {nextId}

CreateStep ==
    \E u \in Users, e \in CallerEntities, s \in SlugArgs, up \in BOOLEAN, f \in Faults :
        create_entity(u, e.type, e.data, s, e.collection, up, f)

UpdateByIdStep ==
    \E u \in Users, id \in EntityIds, d \in CallerData, f \in Faults :
        update_entity_by_id(u, id, d, f)

UpdateBySlugStep ==
    \E u \in Users, s \in KnownSlugs, d \in CallerData, f \in Faults :
        update_entity_by_slug(u, s, d, f)

ArchiveStep ==
    \E u \in Users, id \in EntityIds, r \in Reasons, f \in Faults :
        archive_entity(u, id, r, f)

CommitStep == \E t \in txns, f \in Faults : Commit(t, f)

\* the caller takes the result and goes on
Return ==
    /\ last # NoCall
    /\ last' = NoCall
    /\ UNCHANGED <<entities, txns, nextId, clock, mode>>
    /\ UNCHANGED <<memVars, readVars, agentVars>>

CommitFailsStep == \E t \in txns, giveUp \in BOOLEAN : CommitFails(t, giveUp)

StoreStep ==
    \/ CreateStep
    \/ UpdateByIdStep
    \/ UpdateBySlugStep
    \/ ArchiveStep
    \/ CommitStep
    \/ CommitFailsStep

Next == StoreStep \/ Return

Spec == Init /\ [][Next]_vars

SpecConcurrent == InitConcurrent /\ [][StoreStep]_vars

\* ------------------------------------------------- list_entities, lookups
\* `if not include_archived: query = query.filter(archived_at.is_(None))`
NoArchivedFilter(rows, include_archived) == rows
ArchivedFilter(rows, include_archived) ==
    IF ~include_archived THEN {r \in rows : r.archived_at = NullTs} ELSE rows

\* order_by(UserEntity.updated_at.desc())
RECURSIVE OrderByUpdatedDesc(_)
OrderByUpdatedDesc(rows) ==
    IF rows = {} THEN <<>>
    ELSE LET top == CHOOSE r \in rows : \A x \in rows : x.updated_at <= r.updated_at
         IN  <<top>> \o OrderByUpdatedDesc(rows \ {top})

\* .limit(limit).offset(offset)
LimitOffset(seq, limit, offset) ==
    SubSeq(seq, offset + 1, Min(Len(seq), offset + limit))

\* entity_type / collection "" stands for None (both are falsy)
list_entities(table, user_id, entity_type, collection, include_archived, limit, offset) ==
    LET byUser == {r \in table : r.user_id = user_id}
        byType == IF entity_type # "" THEN {r \in byUser : r.type = entity_type}
                  ELSE byUser
        byColl == IF collection # "" THEN {r \in byType : r.collection = collection}
                  ELSE byType
    IN  LimitOffset(OrderByUpdatedDesc(ArchivedFilter(byColl, include_archived)),
                    limit, offset)

\* get_user_entities: list_entities(user_id, include_archived=False, limit=1000, offset=0)
ToolLimit == 1000
get_user_entities(table, user_id) ==
    list_entities(table, user_id, "", "", FALSE, ToolLimit, 0)

\* result.scalars().first() of a query that filters on the id alone
get_entity_by_id(table, entity_id, include_archived) ==
    LET hit == {r \in table : r.id = entity_id}
    IN  IF hit = {} THEN NoRow ELSE CHOOSE r \in hit : TRUE

\* result.scalars().first() of a query that filters on user_id and slug
get_entity_by_slug(table, user_id, slug, include_archived) ==
    LET hit == {r \in table : r.user_id = user_id /\ r.slug = slug}
    IN  IF hit = {} THEN NoRow ELSE CHOOSE r \in hit : TRUE

\* ======================================================== entity store claims
\* the rows of `table` a create_entity call with an explicit slug collides with
SameSlug(table, c) == {r \in table : r.user_id = c.user /\ r.slug = c.slug}

\* a step in which a call of `ops` finishes (serial runs record it in last)
Finishes(ops) == last = NoCall /\ last'.op \in ops

\* C1: in every reachable state, whatever create_entity (with or without upsert),
\* update_entity_by_slug, update_entity_by_id and archive_entity calls the tasks have
\* interleaved, no two rows of user_entities have the same (user_id, slug).
C1_OneRowPerUserSlug ==
    \A r1, r2 \in entities :
        (r1.user_id = r2.user_id /\ r1.slug = r2.slug) => r1 = r2

\* a create_entity hit an existing slug and was merged into its row, which a
\* transaction of a later call now holds
C1_Witness ==
    \E t \in txns, r \in entities :
        r.id = t.row /\ r.data.id # StrUuid(r.id)

\* C2: a create_entity with allow_upsert=True whose (user_id, slug) exists never fails
\* on uniqueness; when it returns, it returns the existing row: same id, the type,
\* collection and data of this call, archived_at null, and no other row is added,
\* removed or changed.
C2_UpsertMerges ==
    [][ (Finishes({"create_entity"}) /\ last'.call.allow_upsert
            /\ SameSlug(entities, last'.call) # {})
        => LET c == last'.call
               old == CHOOSE r \in SameSlug(entities, c) : TRUE
               new == last'.row
           IN  /\ last'.exc \in {"none", "RetryError"}
               /\ last'.exc = "RetryError" => entities' = entities
               /\ last'.exc = "none" =>
                    /\ new.id = old.id
                    /\ new.user_id = old.user_id /\ new.slug = old.slug
                    /\ new.created_at = old.created_at
                    /\ new.type = c.type
                    /\ new.collection = c.collection
                    /\ DOMAIN new.data = DOMAIN c.data \cup {"id", "meta"}
                    /\ \A k \in DOMAIN c.data \ {"id", "meta"} : new.data[k] = c.data[k]
                    /\ "meta" \in DOMAIN c.data =>
                         \A k \in DOMAIN c.data.meta \ {"created_source", "last_updated"} :
                             new.data.meta[k] = c.data.meta[k]
                    /\ new.archived_at = NullTs
                    /\ new \in entities'
                    /\ entities' \ {new} = entities \ {old}
                    /\ Cardinality(entities') = Cardinality(entities) ]_vars

\* an upsert has just resurrected an archived row and replaced its type
C2_Witness ==
    /\ last.op = "create_entity" /\ last.exc = "none" /\ last.call.allow_upsert
    /\ last.row.id = 1 /\ last.row.type = "goal" /\ last.row.created_at = 1
    /\ last.row.data.id # StrUuid(last.row.id)
    /\ clock >= 4

\* C3: a create_entity with allow_upsert=False whose (user_id, slug) exists, live or
\* archived, fails with the uniqueness violation at the first attempt that reaches
\* the database, is not retried after it, and leaves the rows unchanged.
C3_DuplicateSlugFails ==
    [][ (Finishes({"create_entity"}) /\ ~last'.call.allow_upsert
            /\ SameSlug(entities, last'.call) # {})
        => /\ entities' = entities
           /\ last'.row = NoRow
           /\ IF last'.dropped < StopAfterAttempt
              THEN last'.exc = "IntegrityError" /\ last'.attempts = last'.dropped + 1
              ELSE last'.exc = "RetryError" ]_vars

\* the duplicate was refused on the second attempt, against an archived row
C3_Witness ==
    /\ last.op = "create_entity" /\ last.exc = "IntegrityError"
    /\ ~last.call.allow_upsert
    /\ last.dropped = 1 /\ last.attempts = 2
    /\ \E r \in SameSlug(entities, last.call) : r.archived_at # NullTs

\* C4: an archive_entity call that returns does not raise; on a live entity of the
\* user it returns true and the entity's archived_at is set; on an archived or
\* nonexistent entity it returns false and changes nothing; and no archive_entity
\* call ever makes an archived_at that is set null again.
C4_ArchiveOnce ==
    [][ Finishes({"archive_entity"})
        => LET c == last'.call
               live == {r \in entities : r.id = c.id /\ r.user_id = c.user
                                         /\ r.archived_at = NullTs}
           IN  /\ last'.exc \in {"none", "RetryError"}
               /\ last'.exc = "RetryError" =>
                    last'.dropped = StopAfterAttempt /\ entities' = entities
               /\ last'.exc = "none" =>
                    IF live # {}
                    THEN /\ last'.row.id = c.id
                         /\ last'.row.archived_at # NullTs
                         /\ last'.row \in entities'
                         /\ entities' \ {last'.row} = entities \ live
                    ELSE last'.row = NoRow /\ entities' = entities
               /\ \A r \in entities : r.archived_at # NullTs => r \in entities' ]_vars

\* a second archive_entity on an entity that is archived has just returned false
C4_Witness ==
    /\ last.op = "archive_entity" /\ last.exc = "none" /\ last.row = NoRow
    /\ \E r \in entities :
        /\ r.id = last.call.id /\ r.user_id = last.call.user
        /\ r.archived_at # NullTs

\* C5: the row lock serializes update and archive calls on one entity: no two open
\* transactions hold the same row, the row an open transaction is about to write is
\* still live (so of two concurrent archives one alone returns true and an update
\* that returns its entity never wrote onto an archived row), and a call on a live
\* entity that no transaction holds never waits for the holders of other rows.
C5_RowLockSerializes ==
    /\ \A t1, t2 \in txns : t1.row = t2.row => t1 = t2
    /\ \A t \in txns :
        \E r \in entities :
            r.id = t.row /\ r.user_id = t.call.user /\ r.archived_at = NullTs
    /\ \A r \in LiveRows(entities) :
        (Cardinality(txns) < Cardinality(Procs) /\ \A t \in txns : t.row # r.id)
        => /\ ENABLED archive_entity(r.user_id, r.id, "", 0)
           /\ ENABLED update_entity_by_id(r.user_id, r.id, [name |-> "john"], 0)
           /\ ENABLED update_entity_by_slug(r.user_id, r.slug, [name |-> "john"], 0)

\* an archive and an update are in flight at once, on two entities
C5_Witness ==
    \E t1, t2 \in txns :
        /\ t1.row # t2.row
        /\ t1.call.op = "archive_entity"
        /\ t2.call.op # "archive_entity"

\* C6: list_entities with include_archived=False returns no archived entity, and
\* with include_archived=True it returns the archived entities that pass the same
\* filters as well; get_user_entities lists exactly the user's live entities.
ListLimits == {1, ToolLimit}
ListOffsets == {0, 1}
Elems(seq) == {seq[i] : i \in DOMAIN seq}
C6_ListHonoursArchived ==
    \A u \in Users, t \in Types \cup {""}, c \in Collections \cup {""} :
        LET match == {r \in entities :
                        /\ r.user_id = u
                        /\ t # "" => r.type = t
                        /\ c # "" => r.collection = c}
        IN  /\ \A lim \in ListLimits, off \in ListOffsets :
                LET shown == list_entities(entities, u, t, c, FALSE, lim, off)
                    all == list_entities(entities, u, t, c, TRUE, lim, off)
                IN  /\ \A i \in DOMAIN shown : shown[i].archived_at = NullTs
                    /\ Elems(shown) \subseteq match
                    /\ Elems(all) \subseteq match
                    /\ Len(all) = Min(lim, IF Cardinality(match) > off
                                           THEN Cardinality(match) - off ELSE 0)
            /\ Elems(list_entities(entities, u, t, c, TRUE, ToolLimit, 0)) = match
            /\ Elems(list_entities(entities, u, t, c, FALSE, ToolLimit, 0))
                 = LiveRows(match)
            /\ Elems(get_user_entities(entities, u)) =
                 {r \in LiveRows(entities) : r.user_id = u}

\* a user has a live and an archived entity: the default listing shows one, the
\* listing with include_archived=True both
C6_Witness ==
    \E u \in Users :
        /\ Len(list_entities(entities, u, "", "", FALSE, ToolLimit, 0)) = 1
        /\ Len(list_entities(entities, u, "", "", TRUE, ToolLimit, 0)) = 2

\* C7: an update_entity_by_slug or update_entity_by_id whose key has no live row of
\* the user (no row, another user's row, an archived row) returns None without
\* raising and leaves every row unchanged; no update changes an archived row.
C7_UpdateNeedsLiveRow ==
    [][ Finishes({"update_entity_by_id", "update_entity_by_slug"})
        => LET c == last'.call
               keyed == {r \in entities :
                            IF c.op = "update_entity_by_slug" THEN r.slug = c.slug
                            ELSE r.id = c.id}
               live == {r \in keyed : r.user_id = c.user /\ r.archived_at = NullTs}
           IN  /\ live = {} =>
                    /\ last'.exc \in {"none", "RetryError"}
                    /\ last'.exc = "RetryError" => last'.dropped = StopAfterAttempt
                    /\ last'.row = NoRow
                    /\ entities' = entities
               /\ \A r \in entities : r.archived_at # NullTs => r \in entities' ]_vars

\* an update of an archived entity has just returned None
C7_Witness ==
    /\ last.op \in {"update_entity_by_id", "update_entity_by_slug"}
    /\ last.exc = "none" /\ last.row = NoRow
    /\ \E r \in entities :
        /\ r.user_id = last.call.user
        /\ r.id = last.call.id \/ r.slug = last.call.slug
        /\ r.archived_at # NullTs

\* C8: get_entity_by_id and get_entity_by_slug with include_archived=False return
\* None for an archived entity (and the entity with include_archived=True).
C8_LookupsHonourArchived ==
    \A r \in entities :
        r.archived_at # NullTs =>
            /\ get_entity_by_id(entities, r.id, TRUE) = r
            /\ get_entity_by_slug(entities, r.user_id, r.slug, TRUE) = r
            /\ get_entity_by_id(entities, r.id, FALSE) = NoRow
            /\ get_entity_by_slug(entities, r.user_id, r.slug, FALSE) = NoRow

\* ============================================================ insert_memories
\* rows the memories table may hold
MaxMemories == 4

\* the MemoryCreate objects callers pass; the data of the second names every key
\* that the vector metadata sets itself
CallerMemories ==
    << [user_id |-> "u1", type |-> "fact", text |-> "runs daily",
        data |-> [topic |-> "sport"], tags |-> <<"health", "goals">>, deleted |-> FALSE],
       [user_id |-> "u2", type |-> "preference", text |-> "likes tea",
        data |-> [user_id |-> StrUuid("u1"), memory_id |-> StrUuid(0), type |-> "event",
                  tags |-> <<"work">>, created_at |-> Isoformat(0)],
        tags |-> <<>>, deleted |-> FALSE] >>
Batches ==
    { <<>>, <<CallerMemories[1]>>, <<CallerMemories[2]>>,
      <<CallerMemories[1], CallerMemories[2]>> }

\* retry=retry_if_exception_type((OperationalError, InternalError))
retry_if_insert_exception(exc) == exc \in {"OperationalError", "InternalError"}

\* embed_texts: one embedding per text
embed_texts(texts) == [i \in DOMAIN texts |-> <<"embedding", texts[i]>>]

\* ",".join(memory.tags) if memory.tags else ""
RECURSIVE JoinTags(_)
JoinTags(tags) ==
    IF tags = <<>> THEN <<>>
    ELSE IF Len(tags) = 1 THEN tags
    ELSE <<Head(tags), ",">> \o JoinTags(Tail(tags))

\* ChromaStore.create_metadata merges the other way round: data last
DataWinsMetadata(memory) ==
    DictUpdate([user_id |-> StrUuid(memory.user_id),
                memory_id |-> StrUuid(memory.id),
                type |-> memory.type,
                tags |-> JoinTags(memory.tags),
                created_at |-> Isoformat(memory.created_at)],
               memory.data)

\* metadata = {**(memory.data or {}), "user_id": ..., "memory_id": ..., "type": ...,
\*             "tags": ..., "created_at": ...}; created_at is never null in a row
Metadata(memory) ==
    DictUpdate(memory.data,
               [user_id |-> StrUuid(memory.user_id),
                memory_id |-> StrUuid(memory.id),
                type |-> memory.type,
                tags |-> JoinTags(memory.tags),
                created_at |-> Isoformat(memory.created_at)])

\* the rows that insert(Memory).values([...]).returning(Memory) makes of the batch:
\* ids by the column default, created_at as MemoryWithEmbeddingCreate defaulted it
InsertedMemories(batch, firstId, now) ==
    LET embeddings == embed_texts([i \in DOMAIN batch |-> batch[i].text])
    IN  [i \in DOMAIN batch |->
            [id |-> firstId + i - 1,
             user_id |-> batch[i].user_id,
             type |-> batch[i].type,
             text |-> batch[i].text,
             data |-> batch[i].data,
             tags |-> batch[i].tags,
             embedding |-> embeddings[i],
             deleted |-> batch[i].deleted,
             created_at |-> now]]

\* session.commit() of the insert
RollbackRows(table, rows) == table
CommitRows(table, rows) == table \cup {rows[i] : i \in DOMAIN rows}

\* chroma.add_vectors(ids, embeddings, metadatas, documents)
add_vectors(collection, rows) ==
    collection \cup
        { [id |-> StrUuid(rows[i].id),
           embedding |-> rows[i].embedding,
           metadata |-> Metadata(rows[i]),
           document |-> rows[i].text] : i \in DOMAIN rows }

\* the call ends: it returns `rows` (exc "none") or raises exc
Ended(exc, rows) == [ins EXCEPT !.pc = "done", !.exc = exc, !.rows = rows]

\* (an error that is swallowed would let the call return its rows)
SwallowError(exc) == Ended("none", ins.rows)
\* an attempt raises exc: tenacity runs the function again or lets the call end
Raise(exc) ==
    IF ~retry_if_insert_exception(exc) THEN Ended(exc, <<>>)
    ELSE IF ins.attempt >= StopAfterAttempt THEN Ended("RetryError", <<>>)
    ELSE [ins EXCEPT !.pc = "embed", !.attempt = ins.attempt + 1, !.rows = <<>>]

\* insert_memories(memories) is called; `if not memories: return []`. first_id
\* remembers the next id default at the call: the rows with ids from it on are the
\* rows this call has persisted.
InsertCall(batch) ==
    /\ ins.pc = "idle"
    /\ ins' = IF batch = <<>>
              THEN [pc |-> "done", batch |-> batch, attempt |-> 1, rows |-> <<>>,
                    exc |-> "none", first_id |-> memNextId]
              ELSE [pc |-> "embed", batch |-> batch, attempt |-> 1, rows |-> <<>>,
                    exc |-> "none", first_id |-> memNextId]
    /\ UNCHANGED <<memories, index, memNextId, memClock>>
    /\ UNCHANGED <<entityVars, readVars, agentVars>>

\* embeddings = await embed_texts(...): the embedding service answers or fails
EmbedTexts(ok) ==
    /\ ins.pc = "embed"
    /\ ins' = IF ok THEN [ins EXCEPT !.pc = "insert"] ELSE Raise("APIError")
    /\ UNCHANGED <<memories, index, memNextId, memClock>>
    /\ UNCHANGED <<entityVars, readVars, agentVars>>

\* the session block: execute the insert and commit, or lose the connection
SessionInsert(ok) ==
    /\ ins.pc = "insert"
    /\ IF ok
       THEN LET rows == InsertedMemories(ins.batch, memNextId, memClock + 1)
            IN  /\ memNextId + Len(ins.batch) - 1 <= MaxMemories
                /\ memories' = CommitRows(memories, rows)
                /\ memNextId' = memNextId + Len(ins.batch)
                /\ memClock' = memClock + 1
                /\ ins' = [ins EXCEPT !.pc = "vector", !.rows = rows]
       ELSE /\ ins' = Raise("OperationalError")
            /\ UNCHANGED <<memories, memNextId, memClock>>
    /\ UNCHANGED index
    /\ UNCHANGED <<entityVars, readVars, agentVars>>

\* await chroma.add_vectors(...): it adds the entries, fails transiently
\* (InternalError) or rejects the metadata (ValueError); then `return`
VectorOutcomes == {"none", "InternalError", "ValueError"}
AddVectors(outcome) ==
    /\ ins.pc = "vector"
    /\ IF outcome = "none"
       THEN /\ index' = add_vectors(index, ins.rows)
            /\ ins' = Ended("none", ins.rows)
       ELSE /\ index' = index
            /\ ins' = Raise(outcome)
    /\ UNCHANGED <<memories, memNextId, memClock>>
    /\ UNCHANGED <<entityVars, readVars, agentVars>>

\* the caller takes the result or the exception
InsertReturn ==
    /\ ins.pc = "done"
    /\ ins' = InsIdle
    /\ UNCHANGED <<memories, index, memNextId, memClock>>
    /\ UNCHANGED <<entityVars, readVars, agentVars>>

InsertCallStep == \E batch \in Batches : InsertCall(batch)
EmbedTextsStep == \E ok \in BOOLEAN : EmbedTexts(ok)
SessionInsertStep == \E ok \in BOOLEAN : SessionInsert(ok)
AddVectorsStep == \E outcome \in VectorOutcomes : AddVectors(outcome)

NextInsert ==
    \/ InsertCallStep
    \/ EmbedTextsStep
    \/ SessionInsertStep
    \/ AddVectorsStep
    \/ InsertReturn

\* the entity store stays as it is while the memories are written
InitInsert ==
    /\ entities = {}
    /\ txns = {}
    /\ nextId = 1
    /\ clock = 0
    /\ last = NoCall
    /\ mode = "serial"
    /\ InitMemories
    /\ InitRead

SpecInsert == InitInsert /\ [][NextInsert]_vars

MemTypeOK ==
    /\ ins.pc \in {"idle", "embed", "insert", "vector", "done"}
    /\ ins.attempt \in 0..StopAfterAttempt
    /\ memNextId \in 1..(MaxMemories + 1)
    /\ \A m \in memories : m.id \in 1..MaxMemories

\* C9: when insert_memories returns, the index holds for every returned row exactly
\* one entry with the row's id, and that entry's metadata has memory_id = the id,
\* user_id = the row's owner, and the row's type, tags (comma-joined) and created_at
\* (ISO 8601), also when the row's data has keys of those names.
C9_VectorMatchesRow ==
    (ins.pc = "done" /\ ins.exc = "none") =>
        \A i \in DOMAIN ins.rows :
            LET row == ins.rows[i]
                hits == {e \in index : e.id = StrUuid(row.id)}
            IN  /\ row \in memories
                /\ Cardinality(hits) = 1
                /\ \A e \in hits :
                    /\ e.metadata.memory_id = StrUuid(row.id)
                    /\ e.metadata.user_id = StrUuid(row.user_id)
                    /\ e.metadata.type = row.type
                    /\ e.metadata.tags = JoinTags(row.tags)
                    /\ e.metadata.created_at = Isoformat(row.created_at)
                    /\ \A k \in DOMAIN row.data \ {"memory_id", "user_id", "type", "tags",
                                                  "created_at"} :
                        e.metadata[k] = row.data[k]

\* a call has returned a row whose data names user_id, memory_id, type, tags and
\* created_at itself, with other values
C9_Witness ==
    /\ ins.pc = "done" /\ ins.exc = "none"
    /\ \E i \in DOMAIN ins.rows :
        /\ {"user_id", "memory_id", "type", "tags", "created_at"}
              \subseteq DOMAIN ins.rows[i].data
        /\ ins.rows[i].data.user_id # StrUuid(ins.rows[i].user_id)
        /\ ins.rows[i].data.type # ins.rows[i].type

\* C10: every step of insert_memories that writes to the vector index writes only
\* entries whose id is the id of a memory row committed before that step, and it
\* writes the rows of the attempt's own committed batch.
C10_CommitBeforeUpsert ==
    [][ index' # index
        => /\ ins.pc = "vector"
           /\ \A i \in DOMAIN ins.rows : ins.rows[i] \in memories
           /\ \A e \in index' \ index :
                /\ \E m \in memories : e.id = StrUuid(m.id)
                /\ \E i \in DOMAIN ins.rows : e.id = StrUuid(ins.rows[i].id) ]_vars

\* the third attempt of a call has upserted its batch of two, while a batch that
\* was committed earlier has no vectors
C10_Witness ==
    /\ ins.pc = "done" /\ ins.exc = "none" /\ ins.attempt = StopAfterAttempt
    /\ Len(ins.rows) = 2
    /\ Cardinality(index) < Cardinality(memories)

\* C11: whenever no insert_memories call is in progress, every row of memories with
\* an embedding has an entry of the same id in the vector index.
C11_EveryEmbeddedRowIndexed ==
    ins.pc = "idle" =>
        \A m \in memories :
            m.embedding # <<>> => \E e \in index : e.id = StrUuid(m.id)

\* C12: a call whose attempt committed its rows and then failed in the vector
\* upsert does not return on that attempt (it raises or runs again) and, when the
\* upsert has failed on the last attempt, raises; a call returns rows only on the
\* step that upserted them; and no step removes a committed row.
C12_PartialWriteRaises ==
    [][ /\ memories \subseteq memories'
        /\ (ins.pc = "vector" /\ index' = index)
            => /\ ins'.pc \in {"embed", "done"}
               /\ ins'.pc = "done" => ins'.exc \in {"RetryError", "ValueError"}
               /\ ins'.rows = <<>>
               /\ ins.attempt = StopAfterAttempt => ins'.pc = "done"
               /\ \A i \in DOMAIN ins.rows : ins.rows[i] \in memories'
        /\ (ins.pc # "done" /\ ins'.pc = "done" /\ ins'.exc = "none" /\ ins'.rows # <<>>)
            => ins.pc = "vector" /\ index' # index ]_vars

\* a call has raised after its third attempt; each of its attempts committed its row
\* and none upserted a vector
C12_Witness ==
    /\ ins.pc = "done" /\ ins.exc = "RetryError" /\ ins.attempt = StopAfterAttempt
    /\ memClock = StopAfterAttempt
    /\ Cardinality(memories) = StopAfterAttempt
    /\ index = {}

\* C13: a store call is attempted at most 3 times; another attempt follows only an
\* attempt that died of a transient error (for insert_memories a dropped connection
\* or a transient vector-index error, neither of which wrote to the store it failed
\* in); any other error ends the call on the attempt where it occurs; an attempt
\* that succeeds is the last.
C13_RetryPolicy ==
    [][ /\ \A faults \in Faults, exc \in {"none", "IntegrityError", "OperationalError"} :
            LET out == Tenacity(1, faults, exc)
            IN  /\ out.attempts \in 1..StopAfterAttempt
                /\ (faults < StopAfterAttempt /\ exc # "OperationalError")
                     => out.exc = exc /\ out.attempts = faults + 1
                /\ (faults >= StopAfterAttempt \/ exc = "OperationalError")
                     => out.exc = "RetryError" /\ out.attempts = StopAfterAttempt
        /\ ins'.attempt <= StopAfterAttempt
        /\ ins'.attempt # ins.attempt
            => \/ ins.pc = "idle" /\ ins'.attempt = 1
               \/ ins.pc = "done" /\ ins' = InsIdle
               \/ /\ ins'.attempt = ins.attempt + 1
                  /\ ins.pc \in {"insert", "vector"} /\ ins'.pc = "embed"
                  /\ index' = index /\ memories' = memories
        /\ (ins.pc = "vector" /\ index' # index)
            => ins'.pc = "done" /\ ins'.exc = "none" /\ ins'.attempt = ins.attempt
        /\ (ins.pc # "done" /\ ins'.pc = "done")
            => /\ ins'.attempt = ins.attempt \/ ins.pc = "idle"
               /\ ins'.exc = "RetryError" => ins.attempt = StopAfterAttempt
               /\ ins.pc = "embed" => ins'.exc = "APIError" ]_vars

\* a call was retried after a transient error and then ended, on its second
\* attempt, with an error that is not retried
C13_Witness ==
    ins.pc = "done" /\ ins.exc = "ValueError" /\ ins.attempt = 2

\* C14: every entity that create_entity returns, also when the call was merged
\* into an existing row, has data.id equal to its own id, and data.meta carries
\* created_source and last_updated.
C14_DataIdIsRowId ==
    (last.op = "create_entity" /\ last.exc = "none") =>
        /\ last.row.data.id = StrUuid(last.row.id)
        /\ {"created_source", "last_updated"} \subseteq DOMAIN last.row.data.meta

SimScale == 1000
RecScale == 10000

\* recency_weight: float = 0.15, in hundredths
recency_weight == 15
\* recency_decay_days: float = 90.0
recency_decay_days == 90
\* exp(-1 / recency_decay_days) = 0.98895 and exp(-10 / recency_decay_days) = 0.89484,
\* in units of 1 / RecScale
DecayPerDay == 9890
DecayPerTenDays == 8948

\* the day on which the searches run (datetime.now(timezone.utc))
Today == 200

Max(a, b) == IF a > b THEN a ELSE b

\* d.get(k), "" and None both being <<>>
Get(d, k) == IF k \in DOMAIN d THEN d[k] ELSE <<>>

\* math.exp(-age_days / recency_decay_days)
RECURSIVE ExpDecay(_)
ExpDecay(age_days) ==
    IF age_days <= 0 THEN RecScale
    ELSE IF age_days >= 10
    THEN (ExpDecay(age_days - 10) * DecayPerTenDays) \div RecScale
    ELSE (ExpDecay(age_days - 1) * DecayPerDay) \div RecScale

\* datetime.fromisoformat(created_at.replace("Z", "+00:00")) raises ValueError on a
\* string that is no ISO 8601 timestamp
ValidIso(created_at) == Len(created_at) = 2 /\ created_at[1] = "iso8601"

\* age_days of calculate_hybrid_score
AgeDays(created_at, now) ==
    IF ValidIso(created_at) THEN Max(0, now - created_at[2])
    ELSE recency_decay_days * 2

\* similarity = 1.0 / (1.0 + distance)
Similarity(distance) == (SimScale * 100) \div (100 + distance)

\* (a recency penalty in place of the boost)
PenaltyScore(distance, created_at, now) ==
    Similarity(distance)
        * (100 * RecScale - recency_weight * ExpDecay(AgeDays(created_at, now)))

\* similarity * (1.0 + recency_weight * recency)
calculate_hybrid_score(distance, created_at, now) ==
    Similarity(distance)
        * (100 * RecScale + recency_weight * ExpDecay(AgeDays(created_at, now)))

\* hybrid_score = 1.0 / (1.0 + item["distance"]) for an item without a timestamp
SimilarityOnly(distance) == Similarity(distance) * (100 * RecScale)

\* where the embedding model puts a text, in tenths (one dimension)
TextPos(text) ==
    CASE text = "sleep" -> 10
      [] text = "sleep duration" -> 11
      [] text = "slept 8 hours" -> 10
      [] text = "slept badly" -> 10
      [] text = "nap after lunch" -> 12
      [] text = "tired today" -> 12
      [] text = "likes tea" -> 10
      [] OTHER -> 30

\* the squared L2 distance of two embeddings, in hundredths
L2(a, b) == (TextPos(a[2]) - TextPos(b[2])) * (TextPos(a[2]) - TextPos(b[2]))

\* the entries the Chroma collection may hold when a search runs: five written by
\* insert_memories, one whose metadata has a created_at that is no timestamp, one
\* whose metadata has no created_at
SearchRows ==
    << [id |-> 1, user_id |-> "u1", type |-> "wellness", text |-> "slept 8 hours",
        data |-> EmptyDict, tags |-> <<"sleep">>,
        embedding |-> <<"embedding", "slept 8 hours">>, deleted |-> FALSE,
        created_at |-> Today - 1],
       [id |-> 2, user_id |-> "u1", type |-> "wellness", text |-> "slept badly",
        data |-> EmptyDict, tags |-> <<"sleep">>,
        embedding |-> <<"embedding", "slept badly">>, deleted |-> FALSE,
        created_at |-> Today - 100],
       [id |-> 3, user_id |-> "u1", type |-> "happenings", text |-> "nap after lunch",
        data |-> EmptyDict, tags |-> <<"sleep", "health">>,
        embedding |-> <<"embedding", "nap after lunch">>, deleted |-> FALSE,
        created_at |-> Today],
       [id |-> 4, user_id |-> "u1", type |-> "happenings", text |-> "tired today",
        data |-> EmptyDict, tags |-> <<>>,
        embedding |-> <<"embedding", "tired today">>, deleted |-> FALSE,
        created_at |-> Today - 100],
       [id |-> 5, user_id |-> "u2", type |-> "reflections", text |-> "likes tea",
        data |-> [user_id |-> StrUuid("u1")], tags |-> <<"sleep">>,
        embedding |-> <<"embedding", "likes tea">>, deleted |-> FALSE,
        created_at |-> Today - 1] >>
SearchPool ==
    add_vectors({}, SearchRows) \cup
    { [id |-> StrUuid(6), embedding |-> <<"embedding", "slept badly">>,
       metadata |-> [user_id |-> StrUuid("u1"), memory_id |-> StrUuid(6),
                     type |-> "wellness", tags |-> <<"sleep">>,
                     created_at |-> <<"yesterday">>],
       document |-> "slept badly"],
      [id |-> StrUuid(7), embedding |-> <<"embedding", "slept 8 hours">>,
       metadata |-> [user_id |-> StrUuid("u1"), chunk_id |-> StrUuid(7)],
       document |-> "slept 8 hours"] }

\* the arguments the searches are called with
Queries == {"sleep", "sleep duration", "   "}
TopKs == {1, 2, 3}
Multipliers == {1, 3}
TagFilters == { <<>>, << <<"sleep">> >> }

\* where_clause = {"user_id": user_id}; if tag_filter: where_clause["tags"] = {"$in": ...}
where_clause(user_id, tag_filter) ==
    IF tag_filter # <<>>
    THEN [user_id |-> user_id, tags |-> [in |-> tag_filter]]
    ELSE [user_id |-> user_id]

\* Chroma's metadata filter: equality per key, membership for {"$in": [...]}
\* (a collection that ignores the where filter)
IgnoreWhere(metadata, where) == TRUE
WhereMatches(metadata, where) ==
    \A k \in DOMAIN where :
        /\ k \in DOMAIN metadata
        /\ IF k = "tags"
           THEN \E i \in DOMAIN where[k].in : metadata[k] = where[k].in[i]
           ELSE metadata[k] = where[k]

\* The answers collection.query may give: the n_results matching entries nearest to
\* the query embedding, nearest first; entries at one distance in any order.
RECURSIVE NearestOrders(_, _, _)
NearestOrders(matching, embedding, n_results) ==
    IF n_results <= 0 \/ matching = {} THEN {<<>>}
    ELSE LET nearest == {e \in matching :
                            \A x \in matching :
                                L2(e.embedding, embedding) <= L2(x.embedding, embedding)}
         IN  UNION { { <<e>> \o rest :
                          rest \in NearestOrders(matching \ {e}, embedding, n_results - 1) } :
                     e \in nearest }

\* ChromaStore.query: the hits, one dict per id
query(collection, embedding, n_results, where) ==
    LET matching == {e \in collection : WhereMatches(e.metadata, where)}
    IN  { [i \in DOMAIN order |->
              [id |-> order[i].id,
               distance |-> L2(order[i].embedding, embedding),
               metadata |-> order[i].metadata,
               document |-> order[i].document]] :
          order \in NearestOrders(matching, embedding, n_results) }

\* scored_results: each hit with its hybrid_score; the select of the memory records
\* has the Python value of `not Memory.deleted` (False) as a condition and fetches
\* none, so item["memory"] is None and created_at comes from the metadata
ScoredResults(hits, now) ==
    [i \in DOMAIN hits |->
        LET created_at == IF hits[i].metadata # EmptyDict
                          THEN Get(hits[i].metadata, "created_at") ELSE <<>>
        IN  [chunk_id |-> hits[i].id,
             distance |-> hits[i].distance,
             metadata |-> hits[i].metadata,
             document |-> hits[i].document,
             memory_id |-> Get(hits[i].metadata, "memory_id"),
             hybrid_score |-> IF created_at # <<>>
                              THEN calculate_hybrid_score(hits[i].distance, created_at, now)
                              ELSE SimilarityOnly(hits[i].distance)]]

\* scored_results.sort(key=lambda x: x["hybrid_score"], reverse=True): stable
KeepIndexOrder(seq) == seq
RECURSIVE SortByScoreDesc(_)
SortByScoreDesc(seq) ==
    IF seq = <<>> THEN <<>>
    ELSE LET best == CHOOSE i \in DOMAIN seq :
                        /\ \A j \in DOMAIN seq : seq[j].hybrid_score <= seq[i].hybrid_score
                        /\ \A j \in 1..(i - 1) : seq[j].hybrid_score < seq[i].hybrid_score
         IN  <<seq[best]>> \o
             SortByScoreDesc(SubSeq(seq, 1, best - 1) \o SubSeq(seq, best + 1, Len(seq)))

\* scored_results[:top_k]
Slice(seq, top_k) == SubSeq(seq, 1, Min(top_k, Len(seq)))

\* semantic_search(session, chroma, user_id, query, top_k, candidate_multiplier,
\* tag_filter=tag_filter); `lookup` is how the select of the memory records ends
semantic_search(user_id, text, top_k, candidate_multiplier, tag_filter, lookup) ==
    /\ srch = NoSearch
    /\ LET query_embedding == embed_texts(<<text>>)[1]
           where == where_clause(user_id, tag_filter)
           n_candidates == top_k * candidate_multiplier
       IN  \E hits \in query(index, query_embedding, n_candidates, where) :
             srch' = [op |-> "semantic_search",
                      user_id |-> user_id, query |-> text, embedded |-> <<text>>,
                      top_k |-> top_k,
                      candidate_multiplier |-> candidate_multiplier,
                      tag_filter |-> tag_filter,
                      where |-> where, n_results |-> n_candidates, hits |-> hits,
                      exc |-> IF hits # <<>> /\ lookup = "raises" THEN "TypeError"
                              ELSE "none",
                      results |-> IF hits # <<>> /\ lookup = "raises" THEN <<>>
                                  ELSE Slice(SortByScoreDesc(ScoredResults(hits, Today)),
                                             top_k)]
    /\ UNCHANGED <<rag, tool>>
    /\ UNCHANGED <<entityVars, memVars, agentVars>>

SemanticSearchStep ==
    \E u \in Users, q \in Queries, k \in TopKs, m \in Multipliers, tf \in TagFilters,
       lookup \in {"empty", "raises"} :
        semantic_search(StrUuid(u), q, k, m, tf, lookup)

\* a collection that holds some of the entries
InitSearch ==
    /\ entities = {}
    /\ txns = {}
    /\ nextId = 1
    /\ clock = 0
    /\ last = NoCall
    /\ mode = "serial"
    /\ memories = {}
    /\ index \in SUBSET SearchPool
    /\ ins = InsIdle
    /\ memNextId = 1
    /\ memClock = 0
    /\ InitRead

\* the caller takes the results
SearchReturn ==
    /\ srch # NoSearch
    /\ srch' = NoSearch
    /\ UNCHANGED <<rag, tool>>
    /\ UNCHANGED <<entityVars, memVars, agentVars>>

NextSearch ==
    \/ SemanticSearchStep
    \/ SearchReturn

SpecSearch == InitSearch /\ [][NextSearch]_vars

SearchTypeOK ==
    srch # NoSearch =>
        /\ Len(srch.results) <= srch.top_k
        /\ Len(srch.hits) <= srch.n_results

\* C16: of two candidates with the same created_at the one at the smaller distance
\* has a hybrid score at least as great, and of two candidates at the same distance
\* the one created more recently has: for the candidates of every search, and for
\* calculate_hybrid_score over a grid of distances and timestamps.
ScoreDistances == {0, 1, 4, 25, 100, 400}
ScoreDays == {Today - 180, Today - 100, Today - 91, Today - 90, Today - 1, Today, Today + 5}
GridScores ==
    [d \in ScoreDistances, t \in ScoreDays |-> calculate_hybrid_score(d, Isoformat(t), Today)]
C16_ScoreMonotone ==
    /\ LET score == GridScores
       IN  /\ \A d1, d2 \in ScoreDistances, t \in ScoreDays :
                d1 <= d2 => score[d1, t] >= score[d2, t]
           /\ \A d \in ScoreDistances, t1, t2 \in ScoreDays :
                t1 >= t2 => score[d, t1] >= score[d, t2]
    /\ srch # NoSearch =>
        LET scored == ScoredResults(srch.hits, Today)
        IN  \A i, j \in DOMAIN scored :
              LET ci == Get(scored[i].metadata, "created_at")
                  cj == Get(scored[j].metadata, "created_at")
              IN  /\ (ci = cj /\ scored[i].distance <= scored[j].distance)
                       => scored[i].hybrid_score >= scored[j].hybrid_score
                  /\ (scored[i].distance = scored[j].distance
                        /\ ValidIso(ci) /\ ValidIso(cj) /\ ci[2] >= cj[2])
                       => scored[i].hybrid_score >= scored[j].hybrid_score

\* a search fetched two candidates at one distance, one created 1 day and one 100
\* days ago, and scored the first strictly higher
C16_Witness ==
    /\ srch # NoSearch
    /\ \E i, j \in DOMAIN srch.hits :
        /\ srch.hits[i].distance = srch.hits[j].distance
        /\ Get(srch.hits[i].metadata, "created_at") = Isoformat(Today - 1)
        /\ Get(srch.hits[j].metadata, "created_at") = Isoformat(Today - 100)
        /\ ScoredResults(srch.hits, Today)[i].hybrid_score
             > ScoredResults(srch.hits, Today)[j].hybrid_score

\* C17: a ranked search that returns gives at most top_k results, each a distinct
\* candidate of the at most top_k * candidate_multiplier fetched; the results are in
\* non-increasing score order, results of equal score keep the order the index
\* returned them in, no candidate left out scores strictly above a returned one, and
\* at equal distance a 1-day-old candidate comes before a 100-day-old one.
HitPositions(results, hits) ==
    [r \in DOMAIN results |-> CHOOSE h \in DOMAIN hits : hits[h].id = results[r].chunk_id]
----------------------------------------------------------------------------
\* VectorSearchResponse.to_rag_context (vs/models.py)

\* most documents a rendered response holds
MaxDocs == 3

\* str.strip() of the document texts below
Strip(text) ==
    CASE text = "  naps after lunch " -> "naps after lunch"
      [] text = "   " -> ""
      [] OTHER -> text

\* documents of a response: text and score in thousandths (0: no score, or 0.0)
Documents ==
    { [text |-> "tea", score |-> Similarity(100)],
      [text |-> "  naps after lunch ", score |-> Similarity(0)],
      [text |-> "   ", score |-> 0],
      [text |-> "sleeps seven hours on weekdays", score |-> Similarity(25)] }
RECURSIVE SeqsUpTo(_, _)
SeqsUpTo(S, n) ==
    IF n = 0 THEN {<<>>}
    ELSE LET shorter == SeqsUpTo(S, n - 1)
         IN  shorter \cup {Append(q, x) : q \in {r \in shorter : Len(r) = n - 1}, x \in S}
MaxLengths == {0, 1, 2, 30, 60, 2000}

\* f"{score:.3f}" of a score given in thousandths
Format3f(score) ==
    LET frac == score % SimScale
    IN  ToString(score \div SimScale) \o "." \o
        (IF frac < 10 THEN "00" ELSE IF frac < 100 THEN "0" ELSE "") \o ToString(frac)

\* entry of the i-th document (i counts from 1, as i + 1 does in the code)
Entry(i, doc) ==
    "[" \o ToString(i) \o "] " \o Strip(doc.text) \o
    (IF doc.score # 0 THEN " (score: " \o Format3f(doc.score) \o ")" ELSE "")

Marker(more) == "... (" \o ToString(more) \o " more results)"

\* "\n\n".join(context_parts)
RECURSIVE JoinBlankLines(_)
JoinBlankLines(parts) ==
    IF parts = <<>> THEN ""
    ELSE IF Len(parts) = 1 THEN parts[1]
    ELSE parts[1] \o "\n\n" \o JoinBlankLines(Tail(parts))

\* a renderer that ignores max_length
RenderAll(documents, i, context_parts, current_length, max_length) ==
    [j \in 1..Len(documents) |-> Entry(j, documents[j])]

\* the for loop, from document i on
RECURSIVE RenderLoop(_, _, _, _, _)
RenderLoop(documents, i, context_parts, current_length, max_length) ==
    IF i > Len(documents) THEN context_parts
    ELSE LET entry == Entry(i, documents[i])
         IN  IF current_length + Len(entry) > max_length /\ context_parts # <<>>
             THEN Append(context_parts, Marker(Len(documents) - (i - 1)))
             ELSE RenderLoop(documents, i + 1, Append(context_parts, entry),
                             current_length + Len(entry) + 2, max_length)

NoResultsText == "No relevant information found."

to_rag_context(documents, max_length) ==
    /\ rag = NoRender
    /\ rag' = [op |-> "to_rag_context",
               documents |-> documents,
               max_length |-> max_length,
               output |-> IF documents = <<>> THEN NoResultsText
                          ELSE JoinBlankLines(RenderLoop(documents, 1, <<>>, 0, max_length))]
    /\ UNCHANGED <<srch, tool>>
    /\ UNCHANGED <<entityVars, memVars, agentVars>>

ToRagContextStep ==
    \E documents \in SeqsUpTo(Documents, MaxDocs), max_length \in MaxLengths :
        to_rag_context(documents, max_length)

RenderReturn ==
    /\ rag # NoRender
    /\ rag' = NoRender
    /\ UNCHANGED <<srch, tool>>
    /\ UNCHANGED <<entityVars, memVars, agentVars>>

InitRender ==
    /\ entities = {}
    /\ txns = {}
    /\ nextId = 1
    /\ clock = 0
    /\ last = NoCall
    /\ mode = "serial"
    /\ InitMemories
    /\ InitRead

NextRender == ToRagContextStep \/ RenderReturn
SpecRender == InitRender /\ [][NextRender]_vars

\* the entries of the first k documents, and the marker when documents are left
Rendered(documents, k) ==
    JoinBlankLines([j \in 1..k |-> Entry(j, documents[j])] \o
                   (IF k < Len(documents) THEN <<Marker(Len(documents) - k)>> ELSE <<>>))
MarkerLen(documents, k) ==
    IF k < Len(documents) THEN Len(Marker(Len(documents) - k)) ELSE 0

\* C18 (amended): for max_length N >= 0, to_rag_context returns the fixed text when
\* there are no documents; otherwise the complete entries of a prefix of the
\* documents joined by blank lines, followed, when documents are left out, by one
\* marker counting them; and the output is never longer than N plus the first entry
\* plus the marker plus the 2 characters of the blank line before the marker.
C18_WholeEntriesBounded ==
    rag # NoRender =>
        IF rag.documents = <<>> THEN rag.output = NoResultsText
        ELSE \E k \in 0..Len(rag.documents) :
                /\ rag.output = Rendered(rag.documents, k)
                /\ Len(rag.output) <= rag.max_length + Len(Entry(1, rag.documents[1]))
                                        + MarkerLen(rag.documents, k) + 2

\* a rendering that kept two entries, left one document to the marker and is longer
\* than max_length
C18_Witness ==
    /\ rag # NoRender
    /\ Len(rag.documents) = 3
    /\ rag.output = Rendered(rag.documents, 2)
    /\ Len(rag.output) > rag.max_length

\* C18 as stated: the output is never longer than N plus one full entry (the longest
\* of the response, at best) plus the truncation marker.
C18_BoundAsStated ==
    (rag # NoRender /\ rag.documents # <<>>) =>
        \E k \in 0..Len(rag.documents), e \in DOMAIN rag.documents :
            /\ rag.output = Rendered(rag.documents, k)
            /\ Len(rag.output) <= rag.max_length + Len(Entry(e, rag.documents[e]))
                                    + MarkerLen(rag.documents, k)

\* C19: the where filter of a search's vector-index query has the user_id equality
\* as its only condition, whatever type or tag filter the caller asked for.
C19_WhereIsUserIdOnly ==
    srch # NoSearch => DOMAIN srch.where = {"user_id"}

----------------------------------------------------------------------------
\* The conversational tool handlers (agent/tools/memory.py, agent/tools/user_entity.py)

MemoryHandlers == {"search_memory", "search_memory_ranked", "store_memory"}
EntityHandlers ==
    {"add_user_entity", "update_user_entity", "get_user_entities",
     "get_user_entity_by_id", "get_user_entity_by_slug", "delete_user_entity"}
Handlers == MemoryHandlers \cup EntityHandlers

\* how an attempt of the awaited call ends once the connection holds: it succeeds,
\* the store rejects the statement, the embedding provider fails, the vector index
\* fails
LayerOutcomes == {"none", "IntegrityError", "APIError", "InternalError"}

\* what the call a handler awaits raises ("none": it returns), when its first
\* `faults` attempts die of a dropped connection and the later ones end with exc
AwaitedCall(handler, faults, exc) ==
    IF handler \in EntityHandlers THEN Tenacity(1, faults, exc).exc
    ELSE IF handler = "store_memory"
    THEN IF faults >= StopAfterAttempt \/ retry_if_insert_exception(exc)
         THEN "RetryError" ELSE exc
    ELSE IF faults > 0 THEN "OperationalError" ELSE exc

\* the message of the handler's `except Exception:` branch
FailureMessage(handler) ==
    IF handler = "store_memory" THEN "Failed to store memory."
    ELSE "I had trouble searching your memories. Please try again."

\* the message of a handler whose call returned
SuccessMessage(handler) ==
    CASE handler = "store_memory" -> "Memory stored successfully."
      [] handler \in {"search_memory", "search_memory_ranked"} -> "to_rag_context"
      [] handler = "get_user_entities" -> "format_user_entities"
      [] handler = "delete_user_entity" -> "Succesffully deleted entity"
      [] OTHER -> "format_user_entity"

\* the handler is called and awaits the store, the search or the insert
ToolCall(handler) ==
    /\ tool = NoTool
    /\ tool' = [op |-> handler, pc |-> "await", faults |-> 0, outcome |-> "none",
                returned |-> "", raised |-> "none"]
    /\ UNCHANGED <<srch, rag>>
    /\ UNCHANGED <<entityVars, memVars, agentVars>>

\* the awaited call ends; the memory handlers catch Exception around it and return
\* their message, the entity handlers have no try block around it
ToolAwaited(faults, exc) ==
    /\ tool # NoTool
    /\ tool.pc = "await"
    /\ LET raised == AwaitedCall(tool.op, faults, exc)
       IN  tool' = [tool EXCEPT
                      !.pc = "done",
                      !.faults = faults,
                      !.outcome = exc,
                      !.returned = IF raised = "none" THEN SuccessMessage(tool.op)
                                   ELSE IF tool.op \in MemoryHandlers
                                   THEN FailureMessage(tool.op)
                                   ELSE "",
                      !.raised = IF raised # "none" /\ tool.op \in EntityHandlers
                                 THEN raised ELSE "none"]
    /\ UNCHANGED <<srch, rag>>
    /\ UNCHANGED <<entityVars, memVars, agentVars>>

\* the conversation layer takes the message or the exception
ToolReturn ==
    /\ tool # NoTool
    /\ tool.pc = "done"
    /\ tool' = NoTool
    /\ UNCHANGED <<srch, rag>>
    /\ UNCHANGED <<entityVars, memVars, agentVars>>

ToolCallStep == \E handler \in Handlers : ToolCall(handler)
ToolAwaitedStep == \E faults \in Faults, exc \in LayerOutcomes : ToolAwaited(faults, exc)

InitTools ==
    /\ entities = {}
    /\ txns = {}
    /\ nextId = 1
    /\ clock = 0
    /\ last = NoCall
    /\ mode = "serial"
    /\ InitMemories
    /\ InitRead

NextTools == ToolCallStep \/ ToolAwaitedStep \/ ToolReturn
SpecTools == InitTools /\ [][NextTools]_vars

\* C20: a handler that has ended has returned a message, whatever the store, the
\* embedding provider or the vector index did: no exception leaves it.
C20_HandlersReturnMessage ==
    (tool # NoTool /\ tool.pc = "done") =>
        /\ tool.raised = "none"
        /\ tool.returned # ""

\* C21: every text a search passes to the embedding provider is non-blank, also when
\* the query of the search is empty or whitespace.
C21_EmbeddedTextNotBlank ==
    srch # NoSearch => \A i \in DOMAIN srch.embedded : Strip(srch.embedded[i]) # ""

----------------------------------------------------------------------------
\* JoyceAgent / OnboardingAgent.on_user_turn_completed (agent/joyce.py,
\* agent/onboarding.py): fire-and-forget extraction tasks

\* most user turns of a session
MaxTurns == 2

AgentClasses == {"JoyceAgent", "OnboardingAgent"}
\* new_message.text_content of a turn
TurnTexts == {"", "I moved to Lisbon"}
TaskOutcomes == {"result", "exception", "cancelled"}

\* the coroutines the handler passes to asyncio.create_task
CreatedTasks(class) ==
    IF class = "JoyceAgent" THEN <<"extract_and_store_entities">>
    ELSE <<"extract_and_store_entities", "extract_and_update_user_profile">>

\* a task with no done callback
NoDoneCallback(task) == task
\* task.add_done_callback(self._background_tasks.discard)
add_done_callback(task) == [task EXCEPT !.callbacks = <<"discard">>]

\* the handler has no await: it runs to its return in one step of the event loop,
\* before any task it created has started
on_user_turn_completed(text) ==
    /\ agent # NoAgent
    /\ agent.turns < MaxTurns
    /\ IF text = ""
       THEN agent' = [agent EXCEPT !.turns = @ + 1,
                                   !.last_turn = [text |-> text, created |-> {},
                                                  exc |-> "none"]]
       ELSE LET coros == CreatedTasks(agent.class)
                first == Len(agent.tasks)
                created == [i \in DOMAIN coros |->
                              add_done_callback([coro |-> coros[i], state |-> "pending",
                                                 callbacks |-> <<>>])]
                ids == {first + i : i \in DOMAIN coros}
            IN  agent' = [agent EXCEPT
                            !.turns = @ + 1,
                            !.tasks = @ \o created,
                            !.background_tasks = @ \cup ids,
                            !.last_turn = [text |-> text, created |-> ids,
                                           exc |-> "none"]]
    /\ UNCHANGED <<extract, onboard, rst>>
    /\ UNCHANGED <<entityVars, memVars, readVars>>

\* a task ends: it returns, raises, or is cancelled; its done callbacks are scheduled
\* (call_soon) and its exception stays in the task
TaskEnds(t, outcome) ==
    /\ agent # NoAgent
    /\ t \in DOMAIN agent.tasks
    /\ agent.tasks[t].state = "pending"
    /\ agent' = [agent EXCEPT !.tasks[t].state = outcome]
    /\ UNCHANGED <<extract, onboard, rst>>
    /\ UNCHANGED <<entityVars, memVars, readVars>>

\* the event loop runs the done callbacks of a task that has ended
RunDoneCallbacks(t) ==
    /\ agent # NoAgent
    /\ t \in DOMAIN agent.tasks
    /\ agent.tasks[t].state # "pending"
    /\ agent.tasks[t].callbacks # <<>>
    /\ agent' = [agent EXCEPT !.tasks[t].callbacks = <<>>,
                              !.background_tasks = @ \ {t}]
    /\ UNCHANGED <<extract, onboard, rst>>
    /\ UNCHANGED <<entityVars, memVars, readVars>>

TurnStep == \E text \in TurnTexts : on_user_turn_completed(text)
TaskEndsStep ==
    \E t \in 1..(2 * (MaxTurns + 1)), outcome \in TaskOutcomes : TaskEnds(t, outcome)
RunDoneCallbacksStep == \E t \in 1..(2 * (MaxTurns + 1)) : RunDoneCallbacks(t)

InitAgent ==
    /\ entities = {}
    /\ txns = {}
    /\ nextId = 1
    /\ clock = 0
    /\ last = NoCall
    /\ mode = "serial"
    /\ InitMemories
    /\ srch = NoSearch
    /\ rag = NoRender
    /\ tool = NoTool
    /\ extract = NoExtract
    /\ onboard = NoOnboard
    /\ rst = NoReset
    /\ \E class \in AgentClasses :
         agent = [class |-> class, turns |-> 0, tasks |-> <<>>, background_tasks |-> {},
                  last_turn |-> [text |-> "", created |-> {}, exc |-> "none"]]

NextAgent == TurnStep \/ TaskEndsStep \/ RunDoneCallbacksStep
SpecAgent == InitAgent /\ [][NextAgent]_vars

\* what holds of the tasks and of _background_tasks in every state
BackgroundTasksTracked ==
    agent # NoAgent =>
        /\ agent.last_turn.exc = "none"
        /\ agent.last_turn.text = "" => agent.last_turn.created = {}
        /\ agent.last_turn.text # "" =>
             /\ Cardinality(agent.last_turn.created) = Len(CreatedTasks(agent.class))
             /\ agent.last_turn.created \subseteq DOMAIN agent.tasks
        /\ \A t \in DOMAIN agent.tasks :
             agent.tasks[t].state = "pending" => t \in agent.background_tasks
        /\ \A t \in agent.background_tasks :
             /\ t \in DOMAIN agent.tasks
             /\ agent.tasks[t].state = "pending" \/ agent.tasks[t].callbacks # <<>>
        /\ (\A t \in DOMAIN agent.tasks :
              agent.tasks[t].state # "pending" /\ agent.tasks[t].callbacks = <<>>)
             => agent.background_tasks = {}

\* what a turn does to the tasks: those it creates are new, pending and tracked, and
\* it changes no task that existed before
TurnLeavesTasksPending ==
    (agent # NoAgent /\ agent'.turns = agent.turns + 1) =>
          /\ \A t \in agent'.last_turn.created :
               /\ t \notin DOMAIN agent.tasks
               /\ agent'.tasks[t].state = "pending"
               /\ t \in agent'.background_tasks
          /\ \A t \in DOMAIN agent.tasks : agent'.tasks[t] = agent.tasks[t]

\* C22: a turn with text creates the agent's background task(s) and returns while
\* they are all still pending, without an exception; a turn without text creates
\* none. Every task that has not ended is in _background_tasks, every member of
\* _background_tasks is a task that is pending or whose done callback has yet to run,
\* and once every task has ended and every done callback has run the set is empty.
C22_FireAndForget ==
    []BackgroundTasksTracked /\ [][TurnLeavesTasksPending]_vars

\* an onboarding agent whose entity task failed and whose profile task was cancelled
\* has run both done callbacks, and its set is empty again
C22_Witness ==
    /\ agent # NoAgent
    /\ agent.class = "OnboardingAgent"
    /\ Len(agent.tasks) = 2
    /\ agent.tasks[1].state = "exception"
    /\ agent.tasks[2].state = "cancelled"
    /\ agent.tasks[1].callbacks = <<>>
    /\ agent.tasks[2].callbacks = <<>>
    /\ agent.background_tasks = {}

\* C23: the row of an entity that archive_entity has archived with a non-empty
\* reason carries that reason in data.meta.archive_reason.
C23_ArchiveReasonStored ==
    (/\ last.op = "archive_entity" /\ last.exc = "none"
     /\ last.row # NoRow /\ last.call.reason # "")
    => \E r \in entities :
         /\ r.id = last.call.id
         /\ "meta" \in DOMAIN r.data
         /\ "archive_reason" \in DOMAIN r.data.meta
         /\ r.data.meta.archive_reason = last.call.reason

\* C24: after create_entity the dict its caller passed, a nested meta object
\* included, has the keys and values it had before the call.
C24_CallerDataUntouched ==
    last.op = "create_entity" => last.call.data_after = last.call.data

\* the rows the insert_memories call in progress has persisted
PersistedByCall == {m \in memories : m.id >= ins.first_id}

\* C25: an insert_memories call given n memories has persisted at most n rows,
\* whatever number of attempts it has made.
C25_AtMostOneCopy ==
    ins.pc # "idle" => Cardinality(PersistedByCall) <= Len(ins.batch)

\* the memory rows, of any user, whose vector a hit or result with this id is
RowsOfChunk(chunk_id) ==
    {j \in DOMAIN SearchRows : StrUuid(SearchRows[j].id) = chunk_id}

\* C26: no candidate and no result of a search made for a user is the memory of
\* another user, also when that memory's data names the searching user as user_id.
C26_SearchStaysWithUser ==
    srch # NoSearch =>
        /\ \A i \in DOMAIN srch.hits : \A j \in RowsOfChunk(srch.hits[i].id) :
             StrUuid(SearchRows[j].user_id) = srch.user_id
        /\ \A i \in DOMAIN srch.results : \A j \in RowsOfChunk(srch.results[i].chunk_id) :
             StrUuid(SearchRows[j].user_id) = srch.user_id

\* a search for u1 returned results while the index held the memory of u2 whose data
\* says user_id = u1 and which is as near to the query as the nearest result
C26_Witness ==
    /\ srch # NoSearch
    /\ srch.exc = "none"
    /\ srch.user_id = StrUuid("u1")
    /\ srch.results # <<>>
    /\ \E e \in index :
        /\ e.id = StrUuid(5)
        /\ SearchRows[5].data.user_id = srch.user_id
        /\ L2(e.embedding, embed_texts(<<srch.query>>)[1]) <= srch.results[1].distance

----------------------------------------------------------------------------
\* Background extraction: extract_and_store_key_entities
\* (agent/functions/extract_entities.py) and json_merge_patch (utils/json.py)

\* JSON null / None as a value of a key
Null == "<null>"
\* the keys whose values are objects in the data of the entities below
ObjectKeys == {"meta"}

\* json_merge_patch(target, patch) for two objects: a null removes the key, an
\* object is merged into the target's object of that key (into {} when the target
\* has none), any other value replaces
RECURSIVE json_merge_patch(_, _)
json_merge_patch(target, patch) ==
    LET removed == {k \in DOMAIN patch \ ObjectKeys : patch[k] = Null}
        keys == (DOMAIN target \cup DOMAIN patch) \ removed
    IN  [k \in keys |->
            IF k \notin DOMAIN patch THEN target[k]
            ELSE IF k \in ObjectKeys
            THEN json_merge_patch(IF k \in DOMAIN target THEN target[k] ELSE EmptyDict,
                                  patch[k])
            ELSE patch[k]]

\* the uuid.UUID object of an id (never equal to a str) and UUID(str)
UuidObject(id) == <<"UUID", id>>
ParseUuid(str) == str[2]

\* the tool calls the LLM answers with (name and the parsed arguments); the schema
\* of update_key_entity has entity_id and patch, the LLM may add a slug
ToolCalls ==
    { [name |-> "create_key_entity",
       args |-> [entity_type |-> "father", collection |-> "social",
                 entity_data |-> [name |-> "john"],
                 slug |-> <<"user", "/", "father">>, allow_upsert |-> TRUE]],
      [name |-> "create_key_entity",
       args |-> [entity_type |-> "goal", collection |-> "pursuits",
                 entity_data |-> [title |-> "run", meta |-> [source |-> "user"]],
                 slug |-> <<"user", "/", "goal">>, allow_upsert |-> FALSE]],
      [name |-> "update_key_entity",
       args |-> [entity_id |-> StrUuid(1), patch |-> [age |-> "52"]]],
      [name |-> "update_key_entity",
       args |-> [entity_id |-> StrUuid(1), slug |-> <<"user", "/", "father">>,
                 patch |-> [name |-> Null, meta |-> [source |-> "llm"]]]],
      [name |-> "delete_key_entity",
       args |-> [entity_id |-> StrUuid(1), reason |-> "stale"]],
      [name |-> "delete_key_entity",
       args |-> [entity_id |-> StrUuid(2), reason |-> ""]] }

\* most tool calls of one answer
MaxCalls == 2
ExtractUser == "u1"

\* What one task of the batch does to the store: create_entity,
\* update_entity_by_slug(slug=args.get("slug"), data=args.get("patch")) or
\* archive_entity. st: the table, the next uuid and the clock; the answer adds what
\* the task returned (row: the entity, NoRow for None; ok: archive's bool) or raised.
ApplyCall(st, call) ==
    LET now == st.clock + 1
        args == call.args
    IN  IF call.name = "create_key_entity"
        THEN LET row == InsertValues(st.nextId, ExtractUser, args.slug, args.entity_type,
                                     args.collection,
                                     PrepareData(args.entity_data, st.nextId, now), now)
                 stmt == InsertEntity(st.table, row, args.allow_upsert, now)
             IN  IF stmt.exc = "none"
                 THEN [table |-> stmt.table, nextId |-> st.nextId + 1, clock |-> now,
                       row |-> stmt.row, ok |-> TRUE, exc |-> "none"]
                 ELSE [table |-> st.table, nextId |-> st.nextId, clock |-> st.clock,
                       row |-> NoRow, ok |-> FALSE, exc |-> stmt.exc]
        ELSE LET c == IF call.name = "update_key_entity"
                      THEN [op |-> "update_entity_by_slug", user |-> ExtractUser,
                            slug |-> IF "slug" \in DOMAIN args THEN args.slug ELSE NoSlug,
                            id |-> NoId, data |-> args.patch, reason |-> ""]
                      ELSE [op |-> "archive_entity", user |-> ExtractUser,
                            slug |-> NoSlug, id |-> ParseUuid(args.entity_id),
                            data |-> EmptyDict, reason |-> args.reason]
                 hit == SelectLive(st.table, c)
             IN  IF hit = {}
                 THEN [table |-> st.table, nextId |-> st.nextId, clock |-> st.clock,
                       row |-> NoRow, ok |-> FALSE, exc |-> "none"]
                 ELSE LET old == CHOOSE r \in hit : TRUE
                          new == FlushRow(old, c, now)
                      IN  [table |-> (st.table \ {old}) \cup {new},
                           nextId |-> st.nextId, clock |-> now,
                           row |-> new, ok |-> TRUE, exc |-> "none"]

\* the tasks of a batch run in the order `order`; results[i] is what the task of
\* call i gave
RECURSIVE ApplyCalls(_, _, _, _)
ApplyCalls(st, calls, order, results) ==
    IF order = <<>> THEN [st |-> st, results |-> results]
    ELSE LET i == Head(order)
             out == ApplyCall(st, calls[i])
         IN  ApplyCalls([table |-> out.table, nextId |-> out.nextId, clock |-> out.clock],
                        calls, Tail(order),
                        [results EXCEPT ![i] = [row |-> out.row, ok |-> out.ok,
                                                exc |-> out.exc]])

\* the record stored_entities keeps of an entity
CacheRecord(id, row) ==
    [id |-> id, slug |-> row.slug, collection |-> row.collection, type |-> row.type,
     data |-> row.data]

\* stored_entities.append({"id": getattr(created, "id", None), ...}): the id is the
\* UUID object of the row
AppendCreated(stored, row) == Append(stored, CacheRecord(UuidObject(row.id), row))

\* the update branch: replace the first record whose id equals str(updated_id),
\* else append one
ReplaceOrAppend(stored, row) ==
    LET same == {j \in DOMAIN stored : stored[j].id = StrUuid(row.id)}
    IN  IF same # {}
        THEN LET first == CHOOSE j \in same : \A x \in same : j <= x
             IN  [stored EXCEPT ![first] = CacheRecord(StrUuid(row.id), row)]
        ELSE Append(stored, CacheRecord(StrUuid(row.id), row))

\* the loop over tool_calls and results that updates stored_entities, from call i
\* on. In the delete branch call.arguments is the JSON string of the arguments
\* (json.loads parsed it above): truthy, and without a method get.
RECURSIVE UpdateCache(_, _, _, _)
UpdateCache(stored, calls, results, i) ==
    IF i > Len(calls) THEN [stored |-> stored, exc |-> "none"]
    ELSE IF calls[i].name = "create_key_entity"
    THEN UpdateCache(AppendCreated(stored, results[i].row), calls, results, i + 1)
    ELSE IF calls[i].name = "update_key_entity"
    THEN UpdateCache(IF results[i].row # NoRow
                     THEN ReplaceOrAppend(stored, results[i].row) ELSE stored,
                     calls, results, i + 1)
    ELSE IF results[i].ok
    THEN [stored |-> stored, exc |-> "AttributeError"]
    ELSE UpdateCache(stored, calls, results, i + 1)

\* One run of extract_and_store_key_entities on the tool calls of an answer:
\* asyncio.gather(return_exceptions=False) raises what the first failing task
\* raised, and the cache is not touched; the other tasks are not cancelled.
extract_and_store_key_entities(calls, order) ==
    /\ extract # NoExtract
    /\ LET applied == ApplyCalls([table |-> entities, nextId |-> nextId, clock |-> clock],
                                 calls, order,
                                 [i \in DOMAIN calls |->
                                    [row |-> NoRow, ok |-> FALSE, exc |-> "none"]])
           raised == {i \in DOMAIN calls : applied.results[i].exc # "none"}
           cache == IF raised # {}
                    THEN [stored |-> extract.stored_entities,
                          exc |-> applied.results[CHOOSE i \in raised :
                                                    \A x \in raised : i <= x].exc]
                    ELSE UpdateCache(extract.stored_entities, calls, applied.results, 1)
       IN  /\ applied.st.clock <= MaxClock
           /\ applied.st.nextId <= MaxId + 1
           /\ entities' = applied.st.table
           /\ nextId' = applied.st.nextId
           /\ clock' = applied.st.clock
           /\ extract' = [op |-> "extract_and_store_key_entities",
                          calls |-> calls,
                          before |-> entities,
                          results |-> applied.results,
                          exc |-> cache.exc,
                          stored_entities |-> cache.stored]
    /\ UNCHANGED <<txns, last, mode>>
    /\ UNCHANGED <<agent, onboard, rst>>
    /\ UNCHANGED <<memVars, readVars>>

Orders(n) == IF n = 2 THEN {<<1, 2>>, <<2, 1>>} ELSE {[i \in 1..n |-> i]}

ExtractStep ==
    \E calls \in SeqsUpTo(ToolCalls, MaxCalls) :
        \E order \in Orders(Len(calls)) : extract_and_store_key_entities(calls, order)

\* a session starts with an empty cache
InitExtract ==
    /\ InitStore
    /\ mode = "serial"
    /\ InitMemories
    /\ srch = NoSearch
    /\ rag = NoRender
    /\ tool = NoTool
    /\ agent = NoAgent
    /\ onboard = NoOnboard
    /\ rst = NoReset
    /\ extract = [op |-> "extract_and_store_key_entities", calls |-> <<>>,
                  before |-> entities, results |-> <<>>, exc |-> "none",
                  stored_entities |-> <<>>]

NextExtract == ExtractStep
SpecExtract == InitExtract /\ [][NextExtract]_vars

\* data equals merged, but for the stamp meta.last_updated of the update
SameButStamp(data, merged) ==
    /\ DOMAIN data \ {"meta"} = DOMAIN merged \ {"meta"}
    /\ \A k \in DOMAIN merged \ {"meta"} : data[k] = merged[k]
    /\ "meta" \in DOMAIN merged =>
         /\ "meta" \in DOMAIN data
         /\ DOMAIN data.meta \ {"last_updated"} = DOMAIN merged.meta \ {"last_updated"}
         /\ \A k \in DOMAIN merged.meta \ {"last_updated"} : data.meta[k] = merged.meta[k]

\* C27: after the extraction has applied one update_key_entity(entity_id, patch)
\* call to a live entity of the user, the data of the entity with that id is the
\* RFC 7396 merge of its previous data with the patch.
C27_UpdateIsMergePatch ==
    (/\ Len(extract.calls) = 1
     /\ extract.calls[1].name = "update_key_entity"
     /\ extract.exc = "none")
    => \A old \in LiveRows(extract.before) :
         (old.user_id = ExtractUser /\ StrUuid(old.id) = extract.calls[1].args.entity_id)
         => \E new \in entities :
              /\ new.id = old.id
              /\ SameButStamp(new.data,
                              json_merge_patch(old.data, extract.calls[1].args.patch))

\* C29: after a run of the extraction whose store tasks all succeeded, the cache
\* stored_entities holds no two records of one entity and no record of an entity
\* that is archived.
C29_CacheOneRecordPerEntity ==
    extract.exc \in {"none", "AttributeError"} =>
        LET stored == extract.stored_entities
        IN  /\ \A i, j \in DOMAIN stored : i # j => stored[i].id[2] # stored[j].id[2]
            /\ \A i \in DOMAIN stored :
                 \A r \in entities : r.id = stored[i].id[2] => r.archived_at = NullTs

----------------------------------------------------------------------------
\* scripts/reset_user.py, running beside insert_memories

\* select(Memory.id).where(user_id == ..., embedding.is_not(None)); str(row[0])
ResetSelect(user) ==
    /\ rst.pc = "idle"
    /\ LET chunk_ids == {StrUuid(m.id) : m \in {x \in memories : x.user_id = user}}
       IN  rst' = [pc |-> IF chunk_ids # {} THEN "delete_vectors" ELSE "delete_rows",
                   user |-> user, chunk_ids |-> chunk_ids, exc |-> "none"]
    /\ UNCHANGED <<agent, extract, onboard>>
    /\ UNCHANGED <<entityVars, memVars, readVars>>

\* await chroma.delete(chunk_ids); when it raises, the script prints and exits, and
\* the session is closed without a commit
ResetDeleteVectors(ok) ==
    /\ rst.pc = "delete_vectors"
    /\ IF ok
       THEN /\ index' = {e \in index : e.id \notin rst.chunk_ids}
            /\ rst' = [rst EXCEPT !.pc = "delete_rows"]
       ELSE /\ index' = index
            /\ rst' = [rst EXCEPT !.pc = "done", !.exc = "InternalError"]
    /\ UNCHANGED <<memories, ins, memNextId, memClock>>
    /\ UNCHANGED <<agent, extract, onboard>>
    /\ UNCHANGED <<entityVars, readVars>>

\* delete(Memory).where(user_id == ...), delete(UserEntity).where(user_id == ...) and
\* session.commit(): the rows of the user as they are committed by now
ResetDeleteRows ==
    /\ rst.pc = "delete_rows"
    /\ memories' = {m \in memories : m.user_id # rst.user}
    /\ entities' = {r \in entities : r.user_id # rst.user}
    /\ rst' = [rst EXCEPT !.pc = "done"]
    /\ UNCHANGED <<index, ins, memNextId, memClock>>
    /\ UNCHANGED <<txns, nextId, clock, last, mode>>
    /\ UNCHANGED <<agent, extract, onboard>>
    /\ UNCHANGED readVars

\* the script has ended
ResetReturn ==
    /\ rst.pc = "done"
    /\ rst' = NoReset
    /\ UNCHANGED <<agent, extract, onboard>>
    /\ UNCHANGED <<entityVars, memVars, readVars>>

ResetSelectStep == \E user \in Users : ResetSelect(user)
ResetDeleteVectorsStep == \E ok \in BOOLEAN : ResetDeleteVectors(ok)

NextReset ==
    \/ NextInsert
    \/ ResetSelectStep
    \/ ResetDeleteVectorsStep
    \/ ResetDeleteRows
    \/ ResetReturn

SpecReset == InitInsert /\ [][NextReset]_vars

\* C28: once reset_user and insert_memories have both finished, every vector-index
\* entry of a user has a memory row of that user with the same id.
C28_NoVectorWithoutRow ==
    (ins.pc = "idle" /\ rst.pc = "idle") =>
        \A e \in index :
            \E m \in memories :
                StrUuid(m.id) = e.id /\ StrUuid(m.user_id) = e.metadata.user_id

\* ========================================================== onboarding review
\* ONBOARDING_EVALUATION_CRITERIA["required_collections"]
RequiredCollections ==
    {"identity", "social", "professional", "health", "lifestyle",
     "pursuits", "resources", "milestones", "misc"}
\* list_entities(..., limit=50)
CollectLimit == 50

\* names a profile row holds ("" stands for NULL; both are falsy)
FirstNames == {"", "ann"}
PreferredNames == {"", "annie"}
\* the user_profiles rows: one per user, onboarding under way
ProfileRows ==
    [first_name : FirstNames, preferred_name : PreferredNames, status : {"in_progress"}]

\* the second user has given a first name and no entity yet
NamedProfile == [first_name |-> "ann", preferred_name |-> "", status |-> "in_progress"]

\* Python floats, in tenths; nan is the value float("nan") and json's NaN give
Num(n) == [kind |-> "num", v |-> n]
NaN == [kind |-> "nan", v |-> 0]
\* a JSON string that is no number ("high"): float() raises ValueError
NotANumber == [kind |-> "str", v |-> 0]
CanFloat(x) == x.kind \in {"num", "nan"}
\* `a < b` of two floats: False whenever one of them is nan
FloatLess(a, b) == a.kind = "num" /\ b.kind = "num" /\ a.v < b.v
\* min(a, b) and max(a, b): the first argument unless the second is smaller / larger
PyMin(a, b) == IF FloatLess(b, a) THEN b ELSE a
PyMax(a, b) == IF FloatLess(a, b) THEN b ELSE a

\* what the judge may put under "confidence"
ConfidenceAnswers == {Num(0 - 5), Num(3), Num(9), Num(15), NaN, NotANumber}
MissingAnswers == { {"goals"} }
AnswerKeys == {"is_ready", "confidence", "missing_critical"}
Restrict(d, keys) == [k \in keys |-> d[k]]
\* the JSON objects the judge may answer: any of the keys may be absent
JudgeDicts ==
    {Restrict(d, keys) :
        d \in [is_ready : BOOLEAN, confidence : ConfidenceAnswers,
               missing_critical : MissingAnswers],
        keys \in SUBSET AnswerKeys}
\* the judge's reply: a JSON object, or text json.loads cannot parse
JudgeReplies ==
    {[parsed |-> TRUE, dict |-> d] : d \in JudgeDicts}
        \cup {[parsed |-> FALSE, dict |-> EmptyDict]}

\* d.get(k, default)
DictGet(d, k, default) == IF k \in DOMAIN d THEN d[k] ELSE default

CollectedEntity(e) ==
    [id |-> e.id, type |-> e.type, slug |-> e.slug, data |-> e.data,
     created_at |-> IF e.created_at # NullTs THEN Isoformat(e.created_at)
                    ELSE Isoformat(NullTs)]
SeqMap(seq, Op(_)) == [i \in DOMAIN seq |-> Op(seq[i])]

\* collect_user_onboarding_data(user_id); `fails` is an exception inside its try
collect_user_onboarding_data(table, profiles, user_id, fails) ==
    IF fails
    THEN [basic_info |-> EmptyDict,
          entities |-> [c \in RequiredCollections |-> <<>>]]
    ELSE [basic_info |-> [first_name |-> profiles[user_id].first_name,
                          preferred_name |-> profiles[user_id].preferred_name],
          entities |->
              [c \in RequiredCollections |->
                  SeqMap(list_entities(table, user_id, "", c, FALSE, CollectLimit, 0),
                         CollectedEntity)]]

\* min(float(assessment.get("confidence", 0.0)), 0.4)
CapConfidence(conf, cap) == PyMin(conf, cap)

\* normalize_onboarding_assessment(assessment, profile_data): the dict it returns,
\* or the exception float() raises outside the try
normalize_onboarding_assessment(assessment, profile_data) ==
    LET basic == profile_data.basic_info
        is_identity_present ==
            DictGet(basic, "first_name", "") # "" \/ DictGet(basic, "preferred_name", "") # ""
        entity_data == profile_data.entities
        has_any_context == \E c \in DOMAIN entity_data : Len(entity_data[c]) > 0
        unmet == ~is_identity_present \/ ~has_any_context
        raw == DictGet(assessment, "confidence", Num(0))
        missing == (IF ~is_identity_present THEN {"identity_name"} ELSE {})
                       \cup (IF ~has_any_context THEN {"any_context_entity"} ELSE {})
        guarded ==
            IF unmet
            THEN SetKey(SetKey(SetKey(assessment, "is_ready", FALSE),
                               "confidence", CapConfidence(raw, Num(4))),
                        "missing_critical",
                        DictGet(assessment, "missing_critical", {}) \cup missing)
            ELSE assessment
        conf == DictGet(guarded, "confidence", Num(0))
        bounded ==
            SetKey(guarded, "confidence",
                   IF CanFloat(conf) THEN PyMax(Num(0), PyMin(Num(10), conf)) ELSE Num(0))
    IN  IF unmet /\ ~CanFloat(raw)
        THEN [exc |-> "ValueError", assessment |-> EmptyDict]
        ELSE [exc |-> "none",
              assessment |->
                  SetDefault(SetDefault(bounded, "is_ready", FALSE), "missing_critical", {})]

\* evaluate_onboarding_readiness(user_id): the assessment it returns
evaluate_onboarding_readiness(table, profiles, user_id, reply, collectFails) ==
    LET profile_data == collect_user_onboarding_data(table, profiles, user_id, collectFails)
        normal == normalize_onboarding_assessment(reply.dict, profile_data)
    IN  IF ~reply.parsed
        THEN [is_ready |-> FALSE, confidence |-> Num(0),
              missing_critical |-> {"llm_response_unparseable"}]
        ELSE IF normal.exc # "none"
        THEN [is_ready |-> FALSE, confidence |-> Num(0),
              missing_critical |-> {"evaluation_error"}]
        ELSE normal.assessment

\* mark_user_onboarding_complete(user_id): the profiles afterwards
mark_user_onboarding_complete(profiles, user_id, fails) ==
    IF fails THEN profiles
    ELSE [profiles EXCEPT ![user_id].status = "completed"]

\* review_and_complete_onboarding(context): the tool call, start to end
review_and_complete_onboarding(user_id, reply, collectFails, markFails) ==
    LET assessment ==
            evaluate_onboarding_readiness(entities, onboard.profiles, user_id,
                                          reply, collectFails)
        marks == assessment.is_ready /\ ~markFails
    IN  /\ onboard' =
              [op |-> "review",
               user |-> user_id,
               profiles |-> IF assessment.is_ready
                            THEN mark_user_onboarding_complete(onboard.profiles, user_id,
                                                               markFails)
                            ELSE onboard.profiles,
               assessment |-> assessment,
               completed |-> marks,
               had_name |-> onboard.profiles[user_id].first_name # ""
                                \/ onboard.profiles[user_id].preferred_name # "",
               had_live_entity |->
                   \E r \in entities : r.user_id = user_id /\ r.archived_at = NullTs]
        /\ UNCHANGED <<agent, extract, rst>>
        /\ UNCHANGED <<entityVars, memVars, readVars>>

ReviewStep ==
    \E u \in Users, reply \in JudgeReplies, cf \in BOOLEAN, mf \in BOOLEAN :
        review_and_complete_onboarding(u, reply, cf, mf)

InitOnboard ==
    /\ InitStore
    /\ mode = "serial"
    /\ InitMemories
    /\ srch = NoSearch
    /\ rag = NoRender
    /\ tool = NoTool
    /\ agent = NoAgent
    /\ extract = NoExtract
    /\ rst = NoReset
    /\ \E profiles \in [Users -> ProfileRows] :
           /\ profiles["u2"] = NamedProfile
           /\ onboard = [op |-> "none", user |-> "", profiles |-> profiles,
                         assessment |-> EmptyDict, completed |-> FALSE,
                         had_name |-> FALSE, had_live_entity |-> FALSE]

NextOnboard == ReviewStep

SpecOnboard == InitOnboard /\ [][NextOnboard]_vars

\* C30: a review completes the onboarding only of a user whose profile had a
\* first_name or preferred_name and who had a live entity when it was evaluated;
\* when either is missing the assessment is not ready with a confidence of at most
\* 0.4, whatever the judge answered; the confidence is always within [0, 1].
C30_ReadinessGuardrail ==
    onboard.op = "review" =>
        LET a == onboard.assessment
            met == onboard.had_name /\ onboard.had_live_entity
        IN  /\ onboard.completed => met
            /\ ~met => (~a.is_ready /\ a.confidence.kind = "num" /\ a.confidence.v <= 4)
            /\ a.confidence.kind = "num" /\ a.confidence.v >= 0 /\ a.confidence.v <= 10

====
